---- MODULE Spec2Model ----
(***************************************************************************)
(* Verification model of the seeding toolkit: the locked rate limiters,    *)
(* the constrained assignment generators, the project reference resolvers  *)
(* and the multithreaded comment backfill / user generation workers.       *)
(***************************************************************************)
EXTENDS Integers, Sequences, FiniteSets, TLC

(* ------------------------------------------------------------------ *)
(* Bounds of the model                                                *)
(* ------------------------------------------------------------------ *)
NumThreads == 2          \* worker threads of a pool
MaxCalls == 3            \* rate_limit_* calls in one run
MaxElapsed == 6         \* clock ticks a run may last
TicksPerSecond == 10    \* resolution of the modelled wall clock

Threads == 1..NumThreads
NoThread == 0

(* ------------------------------------------------------------------ *)
(* Rate limiters: backfill_issue_relations.rate_limit_claude /        *)
(* rate_limit_api (backfill_comments.rate_limit_api is the same code) *)
(* ------------------------------------------------------------------ *)
CLAUDE_RATE_LIMIT == 2
API_RATE_LIMIT == 8
\* the two budgets of backfill_issue_relations, and the CSRF budget of generate_user
RelationBudgets == {"claude", "api"}
Budgets == RelationBudgets \cup {"csrf"}
StartTime == 100         \* time.time() when the run starts (last_*_call starts at 0)

VARIABLES clock, lock, last, stamps, rpc, rbudget, wake

rateVars == <<clock, lock, last, stamps, rpc, rbudget, wake>>

(* ------------------------------------------------------------------ *)
(* backfill_projects.create_realistic_assignments                     *)
(* ------------------------------------------------------------------ *)
MaxPairs == 12           \* bound on len(members) * len(projects)

MIN_PROJECTS_PER_MEMBER == 2
MAX_PROJECTS_PER_MEMBER == 6
MIN_MEMBERS_PER_PROJECT == 3
MAX_MEMBERS_PER_PROJECT == 8

\* asgPc: position in the function; nMembers/nProjects: the input lists
\* (member ids 1..nMembers, project ids 1..nProjects, in list order);
\* asgIdx: index of the loop; toppedUp: projects that phase 2 added members to
VARIABLES asgPc, nMembers, nProjects, asgIdx,
          member_assignments, project_assignments, toppedUp

asgVars == <<asgPc, nMembers, nProjects, asgIdx,
             member_assignments, project_assignments, toppedUp>>

(* ------------------------------------------------------------------ *)
(* assign_issues_to_modules.create_issue_module_assignments           *)
(* ------------------------------------------------------------------ *)
MaxIssues == 3           \* bound on len(issues)
MaxModules == 2          \* bound on len(modules)
MaxNoId == 1             \* bound on the records of a list that carry no "id"

MIN_ISSUES_PER_MODULE == 1
MAX_ISSUES_PER_MODULE == 3

\* modPc: position in the function; nIssues/nModules: the input lists (issue
\* i has id i when i \in issueIds, module j has id j when j \in moduleIds);
\* assignments / issue_assignments: the two dicts (DOMAIN = keys, values =
\* lists); available_issues: the shuffled copy; issue_index and modIdx: the
\* loop counters
VARIABLES modPc, nIssues, nModules, issueIds, moduleIds,
          assignments, issue_assignments, available_issues, issue_index, modIdx

modVars == <<modPc, nIssues, nModules, issueIds, moduleIds,
             assignments, issue_assignments, available_issues, issue_index, modIdx>>

(* ------------------------------------------------------------------ *)
(* Project resolvers: backfill_cycles / backfill_issue /              *)
(* backfill_views / backfill_modules                                  *)
(* ------------------------------------------------------------------ *)
MaxRemote == 2           \* bound on the number of projects the discovery calls return
MaxResolves == 2         \* bound on consecutive resolutions of one reference

\* the strings that occur as project names and identifiers in the remote
\* system, and one string that no project carries
KeyStrings == {"Atlas", "Beacon", "WEB"}
UnknownString == "Zenith"
Resolvers == {"cycles", "issue", "views", "modules"}

\* resolver: the script that runs; remote: the projects the discovery calls
\* return, in order (index = (workspace_slug, project id)); project_mapping:
\* _cache["project_mapping"]; item: the reference last resolved; outcomes:
\* what the consecutive resolutions of item returned
VARIABLES resolver, remote, project_mapping, item, outcomes

resVars == <<resolver, remote, project_mapping, item, outcomes>>

(* ------------------------------------------------------------------ *)
(* backfill_comments: worker pool, counters, per-thread sessions      *)
(* ------------------------------------------------------------------ *)
MaxComments == 3         \* bound on the number of comments submitted
BatchSize == 2           \* BATCH_SIZE, scaled down so that several batches occur

\* what a comment will meet: "missing" (no issue_name / comment_html),
\* "unresolved" (issue_name matches no mapped issue), "ok"
CommentKinds == {"missing", "unresolved", "ok"}

\* comments: the submitted list (kind per comment); batch_num: the batch the
\* main thread is processing (0 before the first, total_batches + 1 when done);
\* task: position of each comment's future; cpc / ccomment: position of each
\* worker in backfill_comment and the comment it runs; cerr: whether it is
\* about to count an error; results_lock, ctmp: update_counters;
\* success_count, error_count: the shared counters; batch_success: the
\* main thread's tally of the current batch; tallies: the batch_success of
\* the finished batches; limited: whether the worker has called
\* rate_limit_api since its previous outbound request; unthrottled: the
\* requests a worker sent without that; counted: counter increments per comment
VARIABLES comments, batch_num, task, cpc, ccomment, cerr, results_lock, ctmp,
          success_count, error_count, batch_success, tallies,
          limited, unthrottled, counted

cmVars == <<comments, batch_num, task, cpc, ccomment, cerr, results_lock, ctmp,
            success_count, error_count, batch_success, tallies,
            limited, unthrottled, counted>>

(* ------------------------------------------------------------------ *)
(* generate_user: generate_user_batch workers                         *)
(* ------------------------------------------------------------------ *)
UsersPerBatch == 1       \* bound on batch_size, the users one worker generates
MaxAnswers == 3          \* bound on the client.messages.create calls of one run

GU_CLAUDE_RATE_LIMIT == 3
GU_API_RATE_LIMIT == 10
max_attempts == 5

\* what the LLM may answer: text without a usable user, or one of these users
CandidateUsers == {[email |-> "ana@x.com", name |-> "ana diaz"],
                   [email |-> "Ana@X.com", name |-> "Ana Diaz"],
                   [email |-> "bo@x.com", name |-> "bo chen"]}
BadOutput == [email |-> "", name |-> ""]

\* gpc: position of each worker in generate_user_batch; gleft: users it has
\* still to generate; attempt: its attempt counter; guser: the user parsed
\* from the LLM answer; uniqueness_lock; used_emails / used_full_names;
\* users: the worker's result list; claude_times: the clock at the two most
\* recent client.messages.create; gu_all_users: the all_users list of
\* generate_user; llm_calls: client.messages.create calls made so far
VARIABLES gpc, gleft, attempt, guser, uniqueness_lock, used_emails,
          used_full_names, users, claude_times, gu_all_users, llm_calls

guVars == <<gpc, gleft, attempt, guser, uniqueness_lock, used_emails,
            used_full_names, users, claude_times, gu_all_users, llm_calls>>

(* ------------------------------------------------------------------ *)
(* generate_comments: save_comments_batch / process_project_issues    *)
(* ------------------------------------------------------------------ *)
MaxSaves == 3            \* batches of issues over all projects of a run

\* svPc: position of each worker (one project each); svLeft: batches of issues
\* the worker still has to process; svBatch: its batch_comments;
\* all_comments / comments_lock: the module globals; out_file: the content of
\* OUTPUT_FILE; snap: all_comments right after the worker's extend; wrote:
\* what the worker's json.dump wrote; prev_flush: the content of the file
\* before the latest open(); saved: the comments handed to save_comments_batch
VARIABLES svPc, svLeft, svBatch, all_comments, comments_lock, out_file, snap,
          wrote, prev_flush, saved

svVars == <<svPc, svLeft, svBatch, all_comments, comments_lock, out_file, snap,
            wrote, prev_flush, saved>>

(* ------------------------------------------------------------------ *)
(* backfill_modules: get_project_members and its cache                *)
(* ------------------------------------------------------------------ *)
MaxScopes == 2           \* (workspace, project) scopes of a run
MaxLookups == 3          \* get_project_members calls in one run

\* mbPc / mbScope: position of each worker inside get_project_members and
\* the cache_key it was called with; members_cache: the keys of
\* _cache["members"]; requests: members discovery requests sent per scope;
\* lookups: calls started; late: scopes requested while already cached
VARIABLES mbPc, mbScope, members_cache, requests, lookups, late

mbVars == <<mbPc, mbScope, members_cache, requests, lookups, late>>

(* ------------------------------------------------------------------ *)
(* backfill_comments: build_issue_mapping / resolve_comment_data      *)
(* ------------------------------------------------------------------ *)
MaxProjectIssues == 1    \* issues one discovered project holds
MaxHandled == 2          \* comments handled in one run

ProjectNames == {"Atlas", "Beacon"}
IssueNames == {"Fix login", "Add export"}
UnknownIssue == "Ghost issue"

\* imProjects: the projects of the remote system, each with the status its
\* issue-list request returns and the issues it holds; issue_mapping:
\* _cache["issue_mapping"]; imLast: the comment handled last and what became
\* of it; imHandled: comments handled so far
VARIABLES imProjects, issue_mapping, imLast, imHandled

imVars == <<imProjects, issue_mapping, imLast, imHandled>>

(* ------------------------------------------------------------------ *)
(* Discovery functions: assign_issues_to_cycles.try_get_json and the  *)
(* get_project_* functions of backfill_issue                          *)
(* ------------------------------------------------------------------ *)
MaxRecords == 2          \* records in one discovery response

\* dsList: the list of records the server holds; dsFn: the discovery function
\* called last; dsBare / dsEnv: what it returns when the server answers with
\* the bare array and with the envelope {"results": [...]}
VARIABLES dsList, dsFn, dsBare, dsEnv

dsVars == <<dsList, dsFn, dsBare, dsEnv>>

(* ------------------------------------------------------------------ *)
(* assign_issues_to_cycles.create_issue_cycle_assignments             *)
(* ------------------------------------------------------------------ *)
MaxCyIssues == 2         \* issues handed to the function
MaxCycles == 5           \* cycle records carrying an id

MIN_CYCLES_PER_ISSUE == 2
MAX_CYCLES_PER_ISSUE == 4

\* cyPc: position in the function ("raised": an exception left it);
\* cyIssues: number of issues (ids 1..cyIssues); cyWithId / cyNoId: number of
\* cycle records with and without an id; cyIdx: the issue the loop is at;
\* cyAssignments: the assignments dict, cycle id -> list of issue ids
VARIABLES cyPc, cyIssues, cyWithId, cyNoId, cyIdx, cyAssignments

cyVars == <<cyPc, cyIssues, cyWithId, cyNoId, cyIdx, cyAssignments>>

(* ------------------------------------------------------------------ *)
(* Main loops of backfill_cycles and backfill_issue                   *)
(* ------------------------------------------------------------------ *)
MaxItems == 4            \* items of the input file

\* mlScript: the script that runs; mlItems: what happens to each item of the
\* input file; mlPc / mlIdx: position of the loop; ml_success / ml_failed:
\* success_count / failed_count; mlAttempted: the items attempted so far
VARIABLES mlScript, mlItems, mlPc, mlIdx, ml_success, ml_failed, mlAttempted

mlVars == <<mlScript, mlItems, mlPc, mlIdx, ml_success, ml_failed, mlAttempted>>

(* ------------------------------------------------------------------ *)
(* Create / link writes of the backfill scripts and their status test *)
(* ------------------------------------------------------------------ *)
MaxWrites == 3           \* write requests of one run

\* wrFn / wrStatus: the write function called last and the status of its
\* response; wr_success / wr_failed: writes counted as success / as failure
VARIABLES wrFn, wrStatus, wr_success, wr_failed

wrVars == <<wrFn, wrStatus, wr_success, wr_failed>>

(* ------------------------------------------------------------------ *)
(* backfill_projects.main: creation phase, then assignment phase      *)
(* ------------------------------------------------------------------ *)
MaxProjectsFile == 3     \* projects of projects.json
MaxLinks == 2            \* projects the assignment phase discovers

\* pjPc: position of main; pjResults: what the server answers to each
\* project-creation request ("created", "exists" or "failed"); pjIdx: the
\* project the creation loop is at; total_created / total_existing /
\* total_failed: the counters of create_projects; pjLinks: link requests the
\* assignment phase still has to send; pjLog: the requests sent so far
VARIABLES pjPc, pjResults, pjIdx, total_created, total_existing, total_failed,
          pjLinks, pjLog

pjVars == <<pjPc, pjResults, pjIdx, total_created, total_existing, total_failed,
            pjLinks, pjLog>>

(* ------------------------------------------------------------------ *)
(* Generation retry loops: generate_cycles.generate_cycles_meta and   *)
(* the attempt loop of generate_user.generate_user_batch              *)
(* ------------------------------------------------------------------ *)
MaxRetryItems == 3       \* projects / users handled in one run
MaxBatch == 2            \* bound on batch_size of one generate_user_batch call

\* rtFn: the function that runs; rtPc: "attempt" while it is in its loop;
\* rtAttempt: the loop variable; rtTemps: the temperature (in tenths) of each
\* request sent for the current project / user; rtSize / rtUser: batch_size
\* and the user the batch is at; rtLog: per finished project / user the
\* temperatures sent and whether a result was kept
VARIABLES rtFn, rtPc, rtAttempt, rtTemps, rtSize, rtUser, rtLog

rtVars == <<rtFn, rtPc, rtAttempt, rtTemps, rtSize, rtUser, rtLog>>

(* ------------------------------------------------------------------ *)
(* backfill_issue_relations.process_project_relationships             *)
(* ------------------------------------------------------------------ *)
MaxRlIssues == 2         \* issues of the project
MaxRefs == 2             \* references one suggestion of the analysis lists
MaxSuggestions == 2      \* suggestions of the analysis that are processed

RELATION_TYPES == {"relates_to", "blocked_by", "duplicate", "blocks"}
OtherRelationType == "depends_on"

\* rlPc: position of process_project_relationships; rlIssues: number of
\* issues of the project; rlSeen: suggestions processed so far; rlLast: the
\* link request sent last (fn = "none" before the first); sub_items_created
\* / relations_created: the counters the function returns
VARIABLES rlPc, rlIssues, rlSeen, rlLast, sub_items_created, relations_created

rlVars == <<rlPc, rlIssues, rlSeen, rlLast, sub_items_created, relations_created>>

\* the state of the scripts modelled further below
extVars == <<svVars, mbVars, imVars, dsVars, cyVars, mlVars, wrVars, pjVars, rtVars, rlVars>>

vars == <<rateVars, asgVars, modVars, resVars, cmVars, guVars, extVars>>

Min(a, b) == IF a < b THEN a ELSE b

\* the assignment generator is not running
AsgIdle ==
    /\ asgPc = "idle"
    /\ nMembers = 0
    /\ nProjects = 0
    /\ asgIdx = 0
    /\ member_assignments = <<>>
    /\ project_assignments = <<>>
    /\ toppedUp = {}

\* no resolver script is running
ResIdle ==
    /\ resolver = "none"
    /\ remote = <<>>
    /\ project_mapping = [built |-> FALSE, entries |-> <<>>]
    /\ item = [project_name |-> UnknownString, project_identifier |-> UnknownString]
    /\ outcomes = <<>>

\* generate_user is not running
GuIdle ==
    /\ gpc = [t \in Threads |-> "idle"]
    /\ gleft = [t \in Threads |-> 0]
    /\ attempt = [t \in Threads |-> 0]
    /\ guser = [t \in Threads |-> BadOutput]
    /\ uniqueness_lock = NoThread
    /\ used_emails = {}
    /\ used_full_names = {}
    /\ users = [t \in Threads |-> <<>>]
    /\ claude_times = <<>>
    /\ gu_all_users = <<>>
    /\ llm_calls = 0

\* backfill_comments is not running
CmIdle ==
    /\ comments = <<>>
    /\ batch_num = 0
    /\ task = <<>>
    /\ cpc = [t \in Threads |-> "idle"]
    /\ ccomment = [t \in Threads |-> 0]
    /\ cerr = [t \in Threads |-> FALSE]
    /\ results_lock = NoThread
    /\ ctmp = [t \in Threads |-> 0]
    /\ success_count = 0
    /\ error_count = 0
    /\ batch_success = 0
    /\ tallies = <<>>
    /\ limited = [t \in Threads |-> FALSE]
    /\ unthrottled = {}
    /\ counted = <<>>

\* create_issue_module_assignments is not running
ModIdle ==
    /\ modPc = "idle"
    /\ nIssues = 0
    /\ nModules = 0
    /\ issueIds = {}
    /\ moduleIds = {}
    /\ assignments = <<>>
    /\ issue_assignments = <<>>
    /\ available_issues = <<>>
    /\ issue_index = 0
    /\ modIdx = 0

\* generate_comments is not running
SvIdle ==
    /\ svPc = [t \in Threads |-> "idle"]
    /\ svLeft = [t \in Threads |-> 0]
    /\ svBatch = [t \in Threads |-> <<>>]
    /\ all_comments = <<>>
    /\ comments_lock = NoThread
    /\ out_file = <<>>
    /\ snap = [t \in Threads |-> <<>>]
    /\ wrote = [t \in Threads |-> <<>>]
    /\ prev_flush = <<>>
    /\ saved = {}

Scopes == 1..MaxScopes

\* backfill_modules is not running
MbIdle ==
    /\ mbPc = [t \in Threads |-> "idle"]
    /\ mbScope = [t \in Threads |-> 1]
    /\ members_cache = {}
    /\ requests = [p \in Scopes |-> 0]
    /\ lookups = 0
    /\ late = {}

NoComment == [issue_name |-> UnknownIssue, project_slug |-> <<UnknownString>>]

\* backfill_comments' resolver is not running
ImIdle ==
    /\ imProjects = <<>>
    /\ issue_mapping = [built |-> FALSE, entries |-> <<>>]
    /\ imLast = [comment |-> NoComment, result |-> "none", issue |-> <<0, 0>>]
    /\ imHandled = 0

\* no discovery function has been called
DsIdle ==
    /\ dsList = <<>>
    /\ dsFn = "none"
    /\ dsBare = <<>>
    /\ dsEnv = <<>>

\* create_issue_cycle_assignments is not running
CyIdle ==
    /\ cyPc = "idle"
    /\ cyIssues = 0
    /\ cyWithId = 0
    /\ cyNoId = 0
    /\ cyIdx = 0
    /\ cyAssignments = <<>>

\* neither main loop is running
MlIdle ==
    /\ mlScript = "none"
    /\ mlItems = <<>>
    /\ mlPc = "idle"
    /\ mlIdx = 0
    /\ ml_success = 0
    /\ ml_failed = 0
    /\ mlAttempted = <<>>

\* no write request was sent
WrIdle ==
    /\ wrFn = "none"
    /\ wrStatus = 0
    /\ wr_success = 0
    /\ wr_failed = 0

\* backfill_projects.main is not running
PjIdle ==
    /\ pjPc = "idle"
    /\ pjResults = <<>>
    /\ pjIdx = 0
    /\ total_created = 0
    /\ total_existing = 0
    /\ total_failed = 0
    /\ pjLinks = 0
    /\ pjLog = <<>>

\* no generation loop is running
RtIdle ==
    /\ rtFn = "none"
    /\ rtPc = "idle"
    /\ rtAttempt = 0
    /\ rtTemps = <<>>
    /\ rtSize = 0
    /\ rtUser = 0
    /\ rtLog = <<>>

NoRequest == [fn |-> "none", issue |-> 0, others |-> <<>>, relation_type |-> "none"]

\* process_project_relationships is not running
RlIdle ==
    /\ rlPc = "idle"
    /\ rlIssues = 0
    /\ rlSeen = 0
    /\ rlLast = NoRequest
    /\ sub_items_created = 0
    /\ relations_created = 0

\* none of the scripts modelled further below is running
ExtIdle ==
    /\ SvIdle
    /\ MbIdle
    /\ ImIdle
    /\ DsIdle
    /\ CyIdle
    /\ MlIdle
    /\ WrIdle
    /\ PjIdle
    /\ RtIdle
    /\ RlIdle

RateLimit(b) ==
    IF b = "claude" THEN CLAUDE_RATE_LIMIT
    ELSE IF b = "api" THEN API_RATE_LIMIT
    ELSE GU_API_RATE_LIMIT

\* min_interval = 1.0 / RATE_LIMIT, in clock ticks
MinInterval(b) == TicksPerSecond \div RateLimit(b)

\* the lock a budget's limiter takes: claude_lock in rate_limit_claude,
\* api_lock in rate_limit_api (one lock per budget, named after it)
LockOfShared(b) == "api"
LockOf(b) == b

\* "with lock:" may be entered only while no thread holds the lock
LockFreeNoMutex(l) == TRUE
LockFree(l) == l = NoThread

\* sleep_time = min_interval - time_since_last when time_since_last < min_interval
SleepTime(now, lastCall, interval) ==
    IF now - lastCall < interval THEN interval - (now - lastCall) ELSE 0

RateStart ==
    /\ clock = StartTime
    /\ lock = [b \in Budgets |-> NoThread]
    /\ last = [b \in Budgets |-> 0]
    /\ stamps = [b \in Budgets |-> <<>>]
    /\ rpc = [t \in Threads |-> "idle"]
    /\ rbudget = [t \in Threads |-> "api"]
    /\ wake = [t \in Threads |-> 0]

RateInit == RateStart /\ AsgIdle /\ ModIdle /\ ResIdle /\ CmIdle /\ GuIdle /\ ExtIdle

\* a worker calls rate_limit_claude() or rate_limit_api()
RateCall(t, b) ==
    /\ rpc[t] = "idle"
    /\ rpc' = [rpc EXCEPT ![t] = "lock"]
    /\ rbudget' = [rbudget EXCEPT ![t] = b]
    /\ UNCHANGED <<clock, lock, last, stamps, wake>>

\* with <budget>_lock:
RateAcquire(t) ==
    /\ rpc[t] = "lock"
    /\ LockFree(lock[LockOf(rbudget[t])])
    /\ lock' = [lock EXCEPT ![LockOf(rbudget[t])] = t]
    /\ rpc' = [rpc EXCEPT ![t] = "now"]
    /\ UNCHANGED <<clock, last, stamps, rbudget, wake>>

\* now = time.time(); time_since_last = now - last; if < min_interval: time.sleep(...)
RateReadNow(t) ==
    /\ rpc[t] = "now"
    /\ LET b == rbudget[t]
           s == SleepTime(clock, last[b], MinInterval(b))
       IN  /\ wake' = [wake EXCEPT ![t] = clock + s]
           /\ rpc' = [rpc EXCEPT ![t] = IF s > 0 THEN "sleep" ELSE "stamp"]
    /\ UNCHANGED <<clock, lock, last, stamps, rbudget>>

\* time.sleep returns once at least sleep_time has elapsed
RateWake(t) ==
    /\ rpc[t] = "sleep"
    /\ clock >= wake[t]
    /\ rpc' = [rpc EXCEPT ![t] = "stamp"]
    /\ UNCHANGED <<clock, lock, last, stamps, rbudget, wake>>

\* last_call["time"] = time.time(); leaving the with block releases the lock
RateStampKeepsLock(t) ==
    /\ rpc[t] = "stamp"
    /\ LET b == rbudget[t]
       IN  /\ last' = [last EXCEPT ![b] = clock]
           /\ stamps' = [stamps EXCEPT ![b] = Append(@, clock)]
    /\ rpc' = [rpc EXCEPT ![t] = "idle"]
    /\ wake' = [wake EXCEPT ![t] = 0]
    /\ rbudget' = [rbudget EXCEPT ![t] = "api"]
    /\ UNCHANGED <<clock, lock>>
RateStamp(t) ==
    /\ rpc[t] = "stamp"
    /\ LET b == rbudget[t]
       IN  /\ last' = [last EXCEPT ![b] = clock]
           /\ stamps' = [stamps EXCEPT ![b] = Append(@, clock)]
           /\ lock' = [lock EXCEPT ![LockOf(b)] = IF @ = t THEN NoThread ELSE @]
    /\ rpc' = [rpc EXCEPT ![t] = "idle"]
    /\ wake' = [wake EXCEPT ![t] = 0]
    /\ rbudget' = [rbudget EXCEPT ![t] = "api"]
    /\ UNCHANGED clock

\* wall-clock time passes
Tick ==
    /\ clock < StartTime + MaxElapsed
    /\ clock' = clock + 1
    /\ UNCHANGED <<lock, last, stamps, rpc, rbudget, wake>>

\* fewer than MaxCalls calls were started in this run
CallsBelowBound ==
    Len(stamps["claude"]) + Len(stamps["api"])
        + Cardinality({u \in Threads : rpc[u] # "idle"}) < MaxCalls

RateNext ==
    \/ \E t \in Threads, b \in RelationBudgets : CallsBelowBound /\ RateCall(t, b) /\ UNCHANGED <<asgVars, modVars, resVars, cmVars, guVars, extVars>>
    \/ \E t \in Threads : RateAcquire(t) /\ UNCHANGED <<asgVars, modVars, resVars, cmVars, guVars, extVars>>
    \/ \E t \in Threads : RateReadNow(t) /\ UNCHANGED <<asgVars, modVars, resVars, cmVars, guVars, extVars>>
    \/ \E t \in Threads : RateWake(t) /\ UNCHANGED <<asgVars, modVars, resVars, cmVars, guVars, extVars>>
    \/ \E t \in Threads : RateStamp(t) /\ UNCHANGED <<asgVars, modVars, resVars, cmVars, guVars, extVars>>
    \/ Tick /\ UNCHANGED <<asgVars, modVars, resVars, cmVars, guVars, extVars>>

SpecRate == RateInit /\ [][RateNext]_vars

(* C1: any two calls let through one budget (the successive values written  *)
(* to last_*_call["time"]) are at least 1/RATE_LIMIT apart, so N permitted  *)
(* calls span at least (N-1)/RATE_LIMIT.                                    *)
C1_MinSpacing ==
    \A b \in RelationBudgets :
        /\ \A i \in 1..(Len(stamps[b]) - 1) :
              stamps[b][i + 1] - stamps[b][i] >= MinInterval(b)
        /\ Len(stamps[b]) >= 1 =>
              stamps[b][Len(stamps[b])] - stamps[b][1] >= (Len(stamps[b]) - 1) * MinInterval(b)

\* two calls were let through the claude budget exactly one interval apart
\* (the second caller slept), while both threads were inside rate_limit_*
C1_Witness ==
    /\ Len(stamps["claude"]) = 2
    /\ stamps["claude"][2] - stamps["claude"][1] = MinInterval("claude")
    /\ Len(stamps["api"]) = 1
(* ------------------------------------------------------------------ *)
(* backfill_projects.create_realistic_assignments                     *)
(* ------------------------------------------------------------------ *)
Members == 1..nMembers
Projects == 1..nProjects

\* target_projects = min(random.randint(MIN, MAX), len(project_ids))
TargetChoicesFromZero(n) == {Min(r, n) : r \in 0..MAX_PROJECTS_PER_MEMBER}
TargetChoices(n) == {Min(r, n) : r \in MIN_PROJECTS_PER_MEMBER..MAX_PROJECTS_PER_MEMBER}

\* available_projects, with the fallback to all projects
AvailableProjects(pa, target) ==
    LET open == {p \in DOMAIN pa : Cardinality(pa[p]) < MAX_MEMBERS_PER_PROJECT}
    IN  IF Cardinality(open) < target THEN DOMAIN pa ELSE open

\* random.sample(population, k): any k distinct elements
Sample(population, k) == {S \in SUBSET population : Cardinality(S) = k}

\* member_assignments[member_id].add(project_id) for each selected (member, project)
AddToMemberNone(ma, pairs) == ma
AddToMember(ma, pairs) ==
    [m \in DOMAIN ma |-> ma[m] \cup {q[2] : q \in {r \in pairs : r[1] = m}}]

\* project_assignments[project_id].add(member_id) for each selected (member, project)
AddToProject(pa, pairs) ==
    [p \in DOMAIN pa |-> pa[p] \cup {q[1] : q \in {r \in pairs : r[2] = p}}]

\* members not in the project and below MAX_PROJECTS_PER_MEMBER; when these
\* are fewer than needed, every member not in the project
AvailableMembersNoRelax(ma, pa, p, needed) ==
    {m \in DOMAIN ma : m \notin pa[p] /\ Cardinality(ma[m]) < MAX_PROJECTS_PER_MEMBER}
AvailableMembers(ma, pa, p, needed) ==
    LET strict == {m \in DOMAIN ma :
                     m \notin pa[p] /\ Cardinality(ma[m]) < MAX_PROJECTS_PER_MEMBER}
    IN  IF Cardinality(strict) < needed
        THEN {m \in DOMAIN ma : m \notin pa[p]}
        ELSE strict

\* create_realistic_assignments(members, projects) is called
AsgInit ==
    /\ asgPc = "phase1"
    /\ nMembers \in 0..MaxPairs
    /\ nProjects \in 0..MaxPairs
    /\ nMembers * nProjects <= MaxPairs
    /\ asgIdx = 1
    /\ member_assignments = [m \in 1..nMembers |-> {}]
    /\ project_assignments = [p \in 1..nProjects |-> {}]
    /\ toppedUp = {}

\* one iteration of "for member in members" (phase 1)
Phase1Member ==
    /\ asgPc = "phase1"
    /\ asgIdx <= nMembers
    /\ \E target \in TargetChoices(nProjects) :
         LET avail == AvailableProjects(project_assignments, target)
         IN  \E selected \in Sample(avail, Min(target, Cardinality(avail))) :
                LET pairs == {<<asgIdx, p>> : p \in selected}
                IN  /\ member_assignments' = AddToMember(member_assignments, pairs)
                    /\ project_assignments' = AddToProject(project_assignments, pairs)
    /\ asgIdx' = asgIdx + 1
    /\ UNCHANGED <<asgPc, nMembers, nProjects, toppedUp>>

\* phase 1 loop ends, phase 2 loop starts
Phase1Done ==
    /\ asgPc = "phase1"
    /\ asgIdx > nMembers
    /\ asgPc' = "phase2"
    /\ asgIdx' = 1
    /\ UNCHANGED <<nMembers, nProjects, member_assignments, project_assignments, toppedUp>>

\* one iteration of "for project in projects" (phase 2)
Phase2Project ==
    /\ asgPc = "phase2"
    /\ asgIdx <= nProjects
    /\ LET current == Cardinality(project_assignments[asgIdx])
           needed == MIN_MEMBERS_PER_PROJECT - current
           avail == AvailableMembers(member_assignments, project_assignments, asgIdx, needed)
       IN  IF current < MIN_MEMBERS_PER_PROJECT /\ avail # {}
           THEN \E additional \in Sample(avail, Min(needed, Cardinality(avail))) :
                  /\ member_assignments' =
                        AddToMember(member_assignments, {<<m, asgIdx>> : m \in additional})
                  /\ project_assignments' =
                        AddToProject(project_assignments, {<<m, asgIdx>> : m \in additional})
                  /\ toppedUp' = toppedUp \cup {asgIdx}
           ELSE UNCHANGED <<member_assignments, project_assignments, toppedUp>>
    /\ asgIdx' = asgIdx + 1
    /\ UNCHANGED <<asgPc, nMembers, nProjects>>

\* return member_assignments, project_assignments
AsgReturn ==
    /\ asgPc = "phase2"
    /\ asgIdx > nProjects
    /\ asgPc' = "done"
    /\ UNCHANGED <<nMembers, nProjects, asgIdx, member_assignments, project_assignments, toppedUp>>

(* ------------------------------------------------------------------ *)
(* assign_issues_to_modules.create_issue_module_assignments           *)
(* ------------------------------------------------------------------ *)
Range(f) == {f[i] : i \in DOMAIN f}

\* random.shuffle / random.sample: the orderings without repetition of k
\* elements of a population
Orderings(population, k) ==
    {q \in [1..k -> population] : \A i, j \in 1..k : i # j => q[i] # q[j]}

\* dict[key].append(value), creating the list when the key is absent
AppendAt(d, key, value) ==
    [k \in DOMAIN d \cup {key} |->
        IF k = key
        THEN (IF key \in DOMAIN d THEN Append(d[key], value) ELSE <<value>>)
        ELSE d[k]]

\* the "for issue in selected_issues" loop: both dicts after appending the
\* selected issues, in order, to module j
RECURSIVE LinkSelected(_, _, _, _)
LinkSelected(asg, iasg, j, selected) ==
    IF selected = <<>> THEN <<asg, iasg>>
    ELSE LinkSelected(AppendAt(asg, j, Head(selected)),
                      AppendAt(iasg, Head(selected), j),
                      j, Tail(selected))

\* create_issue_module_assignments(issues, modules) is called
ModInit ==
    /\ modPc = "start"
    /\ nIssues \in 0..MaxIssues
    /\ nModules \in 0..MaxModules
    /\ issueIds \in {S \in SUBSET (1..nIssues) : nIssues - Cardinality(S) <= MaxNoId}
    /\ moduleIds \in {S \in SUBSET (1..nModules) : nModules - Cardinality(S) <= MaxNoId}
    /\ assignments = <<>>
    /\ issue_assignments = <<>>
    /\ available_issues = <<>>
    /\ issue_index = 0
    /\ modIdx = 0

\* "if not issues or not modules: return" - otherwise the Initialize loop and
\* the shuffled copy of issues
ModStart ==
    /\ modPc = "start"
    /\ IF nIssues = 0 \/ nModules = 0
       THEN /\ modPc' = "done"
            /\ UNCHANGED <<assignments, available_issues, modIdx>>
       ELSE /\ modPc' = "first"
            /\ assignments' = [j \in moduleIds |-> <<>>]
            /\ available_issues' \in Orderings(1..nIssues, nIssues)
            /\ modIdx' = 1
    /\ UNCHANGED <<nIssues, nModules, issueIds, moduleIds, issue_assignments, issue_index>>

\* one iteration of the first "for module in modules" loop
ModFirst ==
    /\ modPc = "first"
    /\ modIdx <= nModules
    /\ IF modIdx \notin moduleIds \/ issue_index >= Len(available_issues)
       THEN UNCHANGED <<assignments, issue_assignments, issue_index>>
       ELSE LET issue == available_issues[issue_index + 1]
            IN  IF issue \in issueIds
                THEN /\ assignments' = AppendAt(assignments, modIdx, issue)
                     /\ issue_assignments' = AppendAt(issue_assignments, issue, modIdx)
                     /\ issue_index' = issue_index + 1
                ELSE UNCHANGED <<assignments, issue_assignments, issue_index>>
    /\ modIdx' = modIdx + 1
    /\ UNCHANGED <<modPc, nIssues, nModules, issueIds, moduleIds, available_issues>>

\* the first loop ends, the second starts (available_issues is not read again)
ModFirstDone ==
    /\ modPc = "first"
    /\ modIdx > nModules
    /\ modPc' = "second"
    /\ modIdx' = 1
    /\ available_issues' = <<>>
    /\ UNCHANGED <<nIssues, nModules, issueIds, moduleIds, assignments,
                   issue_assignments, issue_index>>

\* one iteration of the second "for module in modules" loop
ModSecond ==
    /\ modPc = "second"
    /\ modIdx <= nModules
    /\ IF modIdx \notin moduleIds \/ Len(assignments[modIdx]) >= MAX_ISSUES_PER_MODULE
       THEN UNCHANGED <<assignments, issue_assignments>>
       ELSE \E additional_issues \in 0..(MAX_ISSUES_PER_MODULE - Len(assignments[modIdx])) :
              LET available_for_module ==
                      {i \in issueIds : i \notin Range(assignments[modIdx])}
                  num_to_assign == Min(additional_issues, Cardinality(available_for_module))
              IN  IF additional_issues = 0 \/ available_for_module = {}
                  THEN UNCHANGED <<assignments, issue_assignments>>
                  ELSE \E selected_issues \in Orderings(available_for_module, num_to_assign) :
                         LET both == LinkSelected(assignments, issue_assignments,
                                                  modIdx, selected_issues)
                         IN  /\ assignments' = both[1]
                             /\ issue_assignments' = both[2]
    /\ modIdx' = modIdx + 1
    /\ UNCHANGED <<modPc, nIssues, nModules, issueIds, moduleIds, available_issues, issue_index>>

\* return assignments, issue_assignments
ModReturn ==
    /\ modPc = "second"
    /\ modIdx > nModules
    /\ modPc' = "done"
    /\ UNCHANGED <<nIssues, nModules, issueIds, moduleIds, assignments,
                   issue_assignments, available_issues, issue_index, modIdx>>

(* ------------------------------------------------------------------ *)
(* assign_issues_to_cycles.create_issue_cycle_assignments             *)
(* ------------------------------------------------------------------ *)
CyIssueIds == 1..cyIssues
CycleIds == 1..cyWithId

\* num_cycles: random.randint(MIN, MAX) capped at len(cycles)
NumCyclesChoicesFromZero(n) == {Min(r, n) : r \in 0..MAX_CYCLES_PER_ISSUE}
NumCyclesChoices(n) == {Min(r, n) : r \in MIN_CYCLES_PER_ISSUE..MAX_CYCLES_PER_ISSUE}

\* the function is called with some issues (all with ids) and some cycle
\* records, with or without an id
CyInit ==
    /\ cyPc = "start"
    /\ cyIssues \in 0..MaxCyIssues
    /\ cyWithId \in 0..MaxCycles
    /\ cyNoId \in 0..MaxNoId
    /\ cyIdx = 0
    /\ cyAssignments = <<>>

\* the early return on an empty list, else the initialisation loop
CyStart ==
    /\ cyPc = "start"
    /\ IF cyIssues = 0 \/ cyWithId + cyNoId = 0
       THEN /\ cyPc' = "done"
            /\ UNCHANGED <<cyIdx, cyAssignments>>
       ELSE /\ cyPc' = "loop"
            /\ cyIdx' = 1
            /\ cyAssignments' = [c \in CycleIds |-> <<>>]
    /\ UNCHANGED <<cyIssues, cyWithId, cyNoId>>

\* one iteration of "for issue in issues": random.sample raises ValueError
\* when num_cycles exceeds the number of cycles that have an id
CyIssue ==
    /\ cyPc = "loop"
    /\ cyIdx <= cyIssues
    /\ \E num_cycles \in NumCyclesChoices(cyWithId + cyNoId) :
          IF num_cycles = 0
          THEN /\ cyIdx' = cyIdx + 1
               /\ UNCHANGED <<cyPc, cyAssignments>>
          ELSE IF num_cycles > cyWithId
          THEN /\ cyPc' = "raised"
               /\ UNCHANGED <<cyIdx, cyAssignments>>
          ELSE \E selected_cycles \in Sample(CycleIds, num_cycles) :
                  /\ cyAssignments' = [c \in CycleIds |->
                         IF c \in selected_cycles THEN Append(cyAssignments[c], cyIdx)
                         ELSE cyAssignments[c]]
                  /\ cyIdx' = cyIdx + 1
                  /\ UNCHANGED cyPc
    /\ UNCHANGED <<cyIssues, cyWithId, cyNoId>>

\* return assignments
CyReturn ==
    /\ cyPc = "loop"
    /\ cyIdx > cyIssues
    /\ cyPc' = "done"
    /\ UNCHANGED <<cyIssues, cyWithId, cyNoId, cyIdx, cyAssignments>>

CyOthers == <<rateVars, asgVars, modVars, resVars, cmVars, guVars, svVars, mbVars, imVars, dsVars, mlVars, wrVars, pjVars, rtVars, rlVars>>

CyclesInit == RateStart /\ AsgIdle /\ ModIdle /\ ResIdle /\ CmIdle /\ GuIdle /\ SvIdle /\ MbIdle /\ ImIdle /\ DsIdle /\ MlIdle /\ WrIdle /\ PjIdle /\ RtIdle /\ RlIdle /\ CyInit

AsgNext ==
    \/ Phase1Member /\ UNCHANGED <<rateVars, modVars, resVars, cmVars, guVars, extVars>>
    \/ Phase1Done /\ UNCHANGED <<rateVars, modVars, resVars, cmVars, guVars, extVars>>
    \/ Phase2Project /\ UNCHANGED <<rateVars, modVars, resVars, cmVars, guVars, extVars>>
    \/ AsgReturn /\ UNCHANGED <<rateVars, modVars, resVars, cmVars, guVars, extVars>>
    \/ ModStart /\ UNCHANGED <<rateVars, asgVars, resVars, cmVars, guVars, extVars>>
    \/ ModFirst /\ UNCHANGED <<rateVars, asgVars, resVars, cmVars, guVars, extVars>>
    \/ ModFirstDone /\ UNCHANGED <<rateVars, asgVars, resVars, cmVars, guVars, extVars>>
    \/ ModSecond /\ UNCHANGED <<rateVars, asgVars, resVars, cmVars, guVars, extVars>>
    \/ ModReturn /\ UNCHANGED <<rateVars, asgVars, resVars, cmVars, guVars, extVars>>
    \/ CyStart /\ UNCHANGED CyOthers
    \/ CyIssue /\ UNCHANGED CyOthers
    \/ CyReturn /\ UNCHANGED CyOthers

\* one run of either generator on some pair of input lists
AssignInit ==
    \/ /\ RateStart
       /\ ResIdle
       /\ CmIdle
       /\ GuIdle
       /\ ExtIdle
       /\ \/ AsgInit /\ ModIdle
          \/ AsgIdle /\ ModInit
    \/ CyclesInit

SpecAssign == AssignInit /\ [][AsgNext]_vars

(* C2: the two maps returned by create_realistic_assignments are exact      *)
(* inverses, and so are the two dicts returned by                           *)
(* create_issue_module_assignments.                                         *)
C2_ExactInverses ==
    /\ asgPc = "done" =>
          \A m \in Members, p \in Projects :
              p \in member_assignments[m] <=> m \in project_assignments[p]
    /\ modPc = "done" =>
          \A i \in 1..nIssues, j \in 1..nModules :
              (j \in DOMAIN assignments /\ i \in Range(assignments[j]))
                <=> (i \in DOMAIN issue_assignments /\ j \in Range(issue_assignments[i]))

\* both phases of create_realistic_assignments added pairs
C2_Witness ==
    /\ asgPc = "done"
    /\ toppedUp # {}
    /\ nMembers >= 2
    /\ \E m \in Members : Cardinality(member_assignments[m]) >= 2

\* both loops of create_issue_module_assignments added pairs
C2_WitnessModules ==
    /\ modPc = "done"
    /\ \E j \in DOMAIN assignments : Len(assignments[j]) = MAX_ISSUES_PER_MODULE
    /\ \E i \in DOMAIN issue_assignments : Len(issue_assignments[i]) >= 2

C4_ProjectMinimum ==
    asgPc = "done" =>
        \A p \in Projects :
            /\ Cardinality(project_assignments[p]) >= Min(MIN_MEMBERS_PER_PROJECT, nMembers)
            /\ project_assignments[p] \subseteq Members

\* a project left below the minimum by phase 1 was topped up to exactly
\* the minimum out of a larger member list
C4_Witness ==
    /\ asgPc = "done"
    /\ nMembers > MIN_MEMBERS_PER_PROJECT
    /\ \E p \in toppedUp : Cardinality(project_assignments[p]) = MIN_MEMBERS_PER_PROJECT

(* C17: with issues and a non-empty list of cycles that all have ids, every *)
(* issue is assigned to between min(MIN_CYCLES_PER_ISSUE, |cycles|) and     *)
(* min(MAX_CYCLES_PER_ISSUE, |cycles|) pairwise distinct cycles; with       *)
(* exactly two cycles every issue is in both and each cycle receives every  *)
(* issue.                                                                   *)
C17_CyclesPerIssue ==
    (cyPc = "done" /\ cyNoId = 0 /\ cyWithId > 0 /\ cyIssues > 0) =>
        /\ \A i \in CyIssueIds :
              LET linked == {c \in CycleIds : \E k \in 1..Len(cyAssignments[c]) :
                                                cyAssignments[c][k] = i}
              IN  /\ Cardinality(linked) >= Min(MIN_CYCLES_PER_ISSUE, cyWithId)
                  /\ Cardinality(linked) <= Min(MAX_CYCLES_PER_ISSUE, cyWithId)
        /\ \A c \in CycleIds :
              \A k, l \in 1..Len(cyAssignments[c]) :
                  k # l => cyAssignments[c][k] # cyAssignments[c][l]
        /\ cyWithId = MIN_CYCLES_PER_ISSUE =>
              \A c \in CycleIds : Range(cyAssignments[c]) = CyIssueIds

\* five cycles: one issue got two of them, the other four
C17_Witness ==
    /\ cyPc = "done"
    /\ cyNoId = 0
    /\ cyWithId > MAX_CYCLES_PER_ISSUE
    /\ cyIssues = 2
    /\ Cardinality({c \in CycleIds : 1 \in Range(cyAssignments[c])}) = MIN_CYCLES_PER_ISSUE
    /\ Cardinality({c \in CycleIds : 2 \in Range(cyAssignments[c])}) = MAX_CYCLES_PER_ISSUE

\* two cycles, both holding both issues
C17_WitnessTwoCycles ==
    /\ cyPc = "done"
    /\ cyNoId = 0
    /\ cyWithId = MIN_CYCLES_PER_ISSUE
    /\ cyIssues = 2
    /\ \A c \in CycleIds : cyAssignments[c] = <<1, 2>>

(* C18: for issues that all have ids and a non-empty list of modules, the  *)
(* issue -> modules map returned by create_issue_module_assignments has     *)
(* every input issue as a key.                                              *)
C18_EveryIssueIsKey ==
    (modPc = "done" /\ nModules > 0 /\ issueIds = 1..nIssues) =>
        \A i \in 1..nIssues : i \in DOMAIN issue_assignments

(* C19: the three generators never raise; an empty target list yields an    *)
(* empty relation, and with fewer usable targets than the per-subject       *)
(* minimum (cycle records without an id are filtered out) the per-subject   *)
(* count is capped at the number of usable targets.                         *)
C19_GeneratorsNeverRaise ==
    /\ cyPc # "raised"
    /\ (cyPc = "done" /\ cyWithId + cyNoId = 0) => cyAssignments = <<>>
    /\ (modPc = "done" /\ nModules = 0) => assignments = <<>> /\ issue_assignments = <<>>
    /\ (asgPc = "done" /\ nProjects = 0) => \A m \in Members : member_assignments[m] = {}
    /\ (cyPc = "done" /\ cyWithId > 0) =>
          \A i \in CyIssueIds :
              Cardinality({c \in CycleIds : i \in Range(cyAssignments[c])})
                  = Min(MIN_CYCLES_PER_ISSUE, cyWithId)
              \/ cyWithId > MIN_CYCLES_PER_ISSUE
    /\ (asgPc = "done" /\ nProjects < MIN_PROJECTS_PER_MEMBER) =>
          \A m \in Members : Cardinality(member_assignments[m]) = nProjects

(* ------------------------------------------------------------------ *)
(* Project resolvers                                                  *)
(* ------------------------------------------------------------------ *)
\* key in dict
HasKey(d, k) == \E i \in 1..Len(d) : d[i][1] = k

\* dict[key]
Lookup(d, k) == d[CHOOSE i \in 1..Len(d) : d[i][1] = k][2]

\* dict[key] = value: a present key keeps its position and takes the new value
DictSet(d, k, v) ==
    IF HasKey(d, k)
    THEN [i \in 1..Len(d) |-> IF d[i][1] = k THEN <<k, v>> ELSE d[i]]
    ELSE Append(d, <<k, v>>)

\* the loop of build_project_mapping over the discovered projects:
\* backfill_modules maps by name only, the others by name and identifier
RECURSIVE BuildMapping(_, _, _, _)
BuildMapping(script, projects, i, mapping) ==
    IF i > Len(projects) THEN mapping
    ELSE LET byName == DictSet(mapping, projects[i].name, i)
             both == DictSet(byName, projects[i].identifier, i)
         IN  BuildMapping(script, projects, i + 1,
                          IF script = "modules" THEN byName ELSE both)

\* list(project_mapping.values())[0]
FirstValueLast(d) == d[Len(d)][2]
FirstValue(d) == d[1][2]

\* the outcomes of resolve_cycle_data / resolve_issue_data / resolve_view_data
\* for one reference against a mapping
ResolveProject(mapping, ref) ==
    IF HasKey(mapping, ref.project_name)
    THEN [kind |-> "name", project |-> Lookup(mapping, ref.project_name)]
    ELSE IF HasKey(mapping, ref.project_identifier)
    THEN [kind |-> "identifier", project |-> Lookup(mapping, ref.project_identifier)]
    ELSE IF mapping # <<>>
    THEN [kind |-> "fallback", project |-> FirstValue(mapping)]
    ELSE [kind |-> "error", project |-> 0]

\* the outcomes of resolve_module_data: random.choice on a miss
ResolveModuleUnchecked(mapping, ref) ==
    IF HasKey(mapping, ref.project_name)
    THEN {[kind |-> "name", project |-> Lookup(mapping, ref.project_name)]}
    ELSE IF mapping = <<>>
    THEN {[kind |-> "index_error", project |-> 0]}
    ELSE {[kind |-> "fallback", project |-> mapping[i][2]] : i \in 1..Len(mapping)}
ResolveModule(mapping, ref) ==
    IF HasKey(mapping, ref.project_name)
    THEN {[kind |-> "name", project |-> Lookup(mapping, ref.project_name)]}
    ELSE IF mapping = <<>>
    THEN {[kind |-> "error", project |-> 0]}
    ELSE {[kind |-> "fallback", project |-> mapping[i][2]] : i \in 1..Len(mapping)}

ProjectRecords == [name : KeyStrings, identifier : KeyStrings]
References == [project_name : KeyStrings \cup {UnknownString},
               project_identifier : KeyStrings \cup {UnknownString}]

\* a backfill script starts against some remote system
ResInit ==
    /\ resolver \in Resolvers
    /\ remote \in UNION {[1..n -> ProjectRecords] : n \in 0..MaxRemote}
    /\ project_mapping = [built |-> FALSE, entries |-> <<>>]
    /\ item = [project_name |-> UnknownString, project_identifier |-> UnknownString]
    /\ outcomes = <<>>

\* build_project_mapping(): the memoized mapping, built on first use
MappingNow ==
    IF project_mapping.built THEN project_mapping.entries
    ELSE BuildMapping(resolver, remote, 1, <<>>)

\* the history of outcomes of consecutive resolutions of the same reference
Record(ref, outcome) ==
    IF ref = item /\ Len(outcomes) < MaxResolves THEN Append(outcomes, outcome)
    ELSE <<outcome>>

\* resolve_cycle_data / resolve_issue_data / resolve_view_data (ref)
ResolveCall(ref) ==
    /\ resolver \in {"cycles", "issue", "views"}
    /\ project_mapping' = [built |-> TRUE, entries |-> MappingNow]
    /\ outcomes' = Record(ref, ResolveProject(MappingNow, ref))
    /\ item' = ref
    /\ UNCHANGED <<resolver, remote>>

\* resolve_module_data(ref)
ResolveModuleCall(ref) ==
    /\ resolver = "modules"
    /\ project_mapping' = [built |-> TRUE, entries |-> MappingNow]
    /\ \E outcome \in ResolveModule(MappingNow, ref) :
          outcomes' = Record(ref, outcome)
    /\ item' = ref
    /\ UNCHANGED <<resolver, remote>>

ResNext ==
    \/ \E ref \in References : ResolveCall(ref) /\ UNCHANGED <<rateVars, asgVars, modVars, cmVars, guVars, extVars>>
    \/ \E ref \in References : ResolveModuleCall(ref) /\ UNCHANGED <<rateVars, asgVars, modVars, cmVars, guVars, extVars>>

ResolveInit == RateStart /\ AsgIdle /\ ModIdle /\ CmIdle /\ GuIdle /\ ExtIdle /\ ResInit

SpecResolve == ResolveInit /\ [][ResNext]_vars

LastOutcome == outcomes[Len(outcomes)]
NameAndIdentifierResolver == resolver \in {"cycles", "issue", "views"}
NameExists(ref) == \E i \in 1..Len(remote) : remote[i].name = ref.project_name
IdentifierExists(ref) == \E i \in 1..Len(remote) : remote[i].identifier = ref.project_identifier

(* C5: in resolve_cycle_data / resolve_issue_data / resolve_view_data, if   *)
(* a discovered project has the reference's project_name as its name the    *)
(* resolved project has that name; otherwise, if a discovered project has   *)
(* the reference's project_identifier as its identifier the resolved        *)
(* project has that identifier; the fallback is taken only when neither     *)
(* exists.                                                                  *)
C5_MatchPrecedence ==
    (NameAndIdentifierResolver /\ outcomes # <<>>) =>
        /\ NameExists(item) =>
              /\ LastOutcome.kind # "error"
              /\ LastOutcome.kind # "fallback"
              /\ remote[LastOutcome.project].name = item.project_name
        /\ (~NameExists(item) /\ IdentifierExists(item)) =>
              /\ LastOutcome.kind # "error"
              /\ LastOutcome.kind # "fallback"
              /\ remote[LastOutcome.project].identifier = item.project_identifier
        /\ LastOutcome.kind = "fallback" => (~NameExists(item) /\ ~IdentifierExists(item))

(* C6: with a non-empty mapping and neither project_name nor                *)
(* project_identifier a key of it, the resolver returns the value stored    *)
(* under the first key build_project_mapping inserted (the first discovered *)
(* project's name, which holds the last project carrying that string as     *)
(* name or identifier) and does not raise.                                  *)
C6_FallbackFirstEntry ==
    (/\ NameAndIdentifierResolver
     /\ outcomes # <<>>
     /\ remote # <<>>
     /\ \A i \in 1..Len(remote) :
            /\ item.project_name \notin {remote[i].name, remote[i].identifier}
            /\ item.project_identifier \notin {remote[i].name, remote[i].identifier})
    => /\ LastOutcome.kind = "fallback"
       /\ \A i \in 1..Len(remote) :
             (/\ remote[1].name \in {remote[i].name, remote[i].identifier}
              /\ \A j \in (i + 1)..Len(remote) :
                    remote[1].name \notin {remote[j].name, remote[j].identifier})
             => LastOutcome.project = i

\* an unknown reference fell back to the first entry, whose value a later
\* project had overwritten
C6_Witness ==
    /\ NameAndIdentifierResolver
    /\ Len(outcomes) >= 1
    /\ LastOutcome.kind = "fallback"
    /\ LastOutcome.project = 2
    /\ Len(project_mapping.entries) >= 2

(* C14: with an empty project mapping each of the four resolvers raises    *)
(* the explicit "No projects found" error and returns no record; with a     *)
(* non-empty mapping a reference that is not found still yields a record.   *)
C14_EmptyMappingRaises ==
    outcomes # <<>> =>
        /\ project_mapping.entries = <<>> =>
              LastOutcome.kind = "error" /\ LastOutcome.project = 0
        /\ project_mapping.entries # <<>> =>
              /\ LastOutcome.kind \in {"name", "identifier", "fallback"}
              /\ LastOutcome.project \in 1..Len(remote)

\* resolve_module_data was called with no project discovered
C14_Witness ==
    /\ resolver = "modules"
    /\ remote = <<>>
    /\ project_mapping.built
    /\ outcomes # <<>>
    /\ LastOutcome.kind = "error"

\* resolve_cycle_data / resolve_issue_data / resolve_view_data likewise
C14_WitnessNameIdentifier ==
    /\ NameAndIdentifierResolver
    /\ remote = <<>>
    /\ project_mapping.built
    /\ outcomes # <<>>
    /\ LastOutcome.kind = "error"

(* C7: resolving the same reference again in one run yields the same        *)
(* (workspace_slug, project id), for every resolver.                        *)
C7_SameResultEachTime ==
    \A i, j \in 1..Len(outcomes) : outcomes[i].project = outcomes[j].project

(* ------------------------------------------------------------------ *)
(* backfill_comments: process_comments_batch / backfill_comment       *)
(* ------------------------------------------------------------------ *)
NumComments == Len(comments)
BatchOf(c) == ((c - 1) \div BatchSize) + 1
TotalBatches == (NumComments + BatchSize - 1) \div BatchSize

\* "with results_lock:" may be entered only while no thread holds the lock
ResultsLockFreeNoMutex(l) == TRUE
ResultsLockFree(l) == l = NoThread

\* an outbound request by a worker: it is unthrottled when the worker has not
\* called rate_limit_api since its previous request
NoteRequest(t, name) ==
    /\ unthrottled' = IF limited[t] THEN unthrottled ELSE unthrottled \cup {name}
    /\ limited' = [limited EXCEPT ![t] = FALSE]

\* main(): the valid comments are split in batches and the first batch is submitted
CmInit ==
    /\ comments \in UNION {[1..n -> CommentKinds] : n \in 1..MaxComments}
    /\ batch_num = 1
    /\ task = [c \in 1..Len(comments) |-> "queued"]
    /\ cpc = [t \in Threads |-> "idle"]
    /\ ccomment = [t \in Threads |-> 0]
    /\ cerr = [t \in Threads |-> FALSE]
    /\ results_lock = NoThread
    /\ ctmp = [t \in Threads |-> 0]
    /\ success_count = 0
    /\ error_count = 0
    /\ batch_success = 0
    /\ tallies = <<>>
    /\ limited = [t \in Threads |-> FALSE]
    /\ unthrottled = {}
    /\ counted = [c \in 1..Len(comments) |-> 0]

\* a pool worker starts backfill_comment on the next submitted comment of the
\* batch: the field check and resolve_comment_data (the mapping is memoized
\* by main before the pool starts)
CmStart(t) ==
    /\ cpc[t] = "idle"
    /\ \E c \in 1..NumComments :
         /\ task[c] = "queued"
         /\ BatchOf(c) = batch_num
         /\ \A d \in 1..(c - 1) : task[d] # "queued"
         /\ task' = [task EXCEPT ![c] = "running"]
         /\ ccomment' = [ccomment EXCEPT ![t] = c]
         /\ IF comments[c] = "ok"
            THEN /\ cpc' = [cpc EXCEPT ![t] = "csrf"]
                 /\ UNCHANGED cerr
            ELSE /\ cpc' = [cpc EXCEPT ![t] = "count"]
                 /\ cerr' = [cerr EXCEPT ![t] = TRUE]
    /\ UNCHANGED <<comments, batch_num, results_lock, ctmp, success_count, error_count,
                   batch_success, tallies, limited, unthrottled, counted>>

\* get_thread_session -> get_authenticated_session: session.get(CSRF_URL);
\* a bad status or a missing token raises
CmCsrf(t) ==
    /\ cpc[t] = "csrf"
    /\ NoteRequest(t, "csrf")
    /\ \E ok \in BOOLEAN :
         /\ cpc' = [cpc EXCEPT ![t] = IF ok THEN "login" ELSE "count"]
         /\ cerr' = [cerr EXCEPT ![t] = ~ok]
    /\ UNCHANGED <<comments, batch_num, task, ccomment, results_lock, ctmp, success_count,
                   error_count, batch_success, tallies, counted>>

\* get_authenticated_session: session.post(LOGIN_URL); a status other than 302 raises
CmLogin(t) ==
    /\ cpc[t] = "login"
    /\ NoteRequest(t, "login")
    /\ \E ok \in BOOLEAN :
         /\ cpc' = [cpc EXCEPT ![t] = IF ok THEN "rate" ELSE "count"]
         /\ cerr' = [cerr EXCEPT ![t] = ~ok]
    /\ UNCHANGED <<comments, batch_num, task, ccomment, results_lock, ctmp, success_count,
                   error_count, batch_success, tallies, counted>>

\* backfill_comment calls rate_limit_api()
CmRateCall(t) ==
    /\ cpc[t] = "rate"
    /\ RateCall(t, "api")
    /\ cpc' = [cpc EXCEPT ![t] = "limiting"]
    /\ UNCHANGED <<comments, batch_num, task, ccomment, cerr, results_lock, ctmp,
                   success_count, error_count, batch_success, tallies, limited,
                   unthrottled, counted>>

\* rate_limit_api() returns
CmRateReturn(t) ==
    /\ cpc[t] = "limiting"
    /\ rpc[t] = "idle"
    /\ cpc' = [cpc EXCEPT ![t] = "post"]
    /\ limited' = [limited EXCEPT ![t] = TRUE]
    /\ UNCHANGED <<comments, batch_num, task, ccomment, cerr, results_lock, ctmp,
                   success_count, error_count, batch_success, tallies, unthrottled, counted>>

\* session.post(url, ...): 200/201, another status, or an exception
CmPost(t) ==
    /\ cpc[t] = "post"
    /\ NoteRequest(t, "post")
    /\ \E outcome \in {"2xx", "other", "exception"} :
         cerr' = [cerr EXCEPT ![t] = outcome # "2xx"]
    /\ cpc' = [cpc EXCEPT ![t] = "count"]
    /\ UNCHANGED <<comments, batch_num, task, ccomment, results_lock, ctmp, success_count,
                   error_count, batch_success, tallies, counted>>

\* update_counters: "with results_lock:" and the read of counter["value"]
CmCountRead(t) ==
    /\ cpc[t] = "count"
    /\ ResultsLockFree(results_lock)
    /\ results_lock' = t
    /\ ctmp' = [ctmp EXCEPT ![t] = IF cerr[t] THEN error_count ELSE success_count]
    /\ cpc' = [cpc EXCEPT ![t] = "count_write"]
    /\ UNCHANGED <<comments, batch_num, task, ccomment, cerr, success_count, error_count,
                   batch_success, tallies, limited, unthrottled, counted>>

\* update_counters: counter["value"] = read value + 1, the lock is released
\* and backfill_comment returns its result tuple
CmCountWrite(t) ==
    /\ cpc[t] = "count_write"
    /\ IF cerr[t]
       THEN error_count' = ctmp[t] + 1 /\ UNCHANGED success_count
       ELSE success_count' = ctmp[t] + 1 /\ UNCHANGED error_count
    /\ results_lock' = IF results_lock = t THEN NoThread ELSE results_lock
    /\ counted' = [counted EXCEPT ![ccomment[t]] = @ + 1]
    /\ task' = [task EXCEPT ![ccomment[t]] = IF cerr[t] THEN "failed" ELSE "succeeded"]
    /\ cpc' = [cpc EXCEPT ![t] = "idle"]
    /\ ccomment' = [ccomment EXCEPT ![t] = 0]
    /\ cerr' = [cerr EXCEPT ![t] = FALSE]
    /\ ctmp' = [ctmp EXCEPT ![t] = 0]
    /\ UNCHANGED <<comments, batch_num, batch_success, tallies, limited, unthrottled>>

\* process_comments_batch: "for future in as_completed(...)" takes a finished future
CmCollect(c) ==
    /\ task[c] \in {"succeeded", "failed"}
    /\ BatchOf(c) = batch_num
    /\ batch_success' = IF task[c] = "succeeded" THEN batch_success + 1 ELSE batch_success
    /\ task' = [task EXCEPT ![c] = "collected"]
    /\ UNCHANGED <<comments, batch_num, cpc, ccomment, cerr, results_lock, ctmp,
                   success_count, error_count, tallies, limited, unthrottled, counted>>

\* process_comments_batch returns; main submits the next batch
CmBatchDone ==
    /\ batch_num <= TotalBatches
    /\ \A c \in 1..NumComments : BatchOf(c) = batch_num => task[c] = "collected"
    /\ ResultsLockFree(results_lock)
    /\ tallies' = Append(tallies, batch_success)
    /\ batch_success' = 0
    /\ batch_num' = batch_num + 1
    /\ UNCHANGED <<comments, task, cpc, ccomment, cerr, results_lock, ctmp,
                   success_count, error_count, limited, unthrottled, counted>>

\* the clock advances while a worker sleeps inside rate_limit_api (the
\* requests themselves are taken to be instantaneous)
CmTick ==
    /\ \E t \in Threads : rpc[t] = "sleep" /\ clock < wake[t]
    /\ Tick

CmOthers == <<asgVars, modVars, resVars, guVars, extVars>>

CmNext ==
    \/ \E t \in Threads : CmStart(t) /\ UNCHANGED <<rateVars, CmOthers>>
    \/ \E t \in Threads : CmCsrf(t) /\ UNCHANGED <<rateVars, CmOthers>>
    \/ \E t \in Threads : CmLogin(t) /\ UNCHANGED <<rateVars, CmOthers>>
    \/ \E t \in Threads : CmRateCall(t) /\ UNCHANGED CmOthers
    \/ \E t \in Threads : RateAcquire(t) /\ UNCHANGED <<cmVars, CmOthers>>
    \/ \E t \in Threads : RateReadNow(t) /\ UNCHANGED <<cmVars, CmOthers>>
    \/ \E t \in Threads : RateWake(t) /\ UNCHANGED <<cmVars, CmOthers>>
    \/ \E t \in Threads : RateStamp(t) /\ UNCHANGED <<cmVars, CmOthers>>
    \/ \E t \in Threads : CmRateReturn(t) /\ UNCHANGED <<rateVars, CmOthers>>
    \/ \E t \in Threads : CmPost(t) /\ UNCHANGED <<rateVars, CmOthers>>
    \/ \E t \in Threads : CmCountRead(t) /\ UNCHANGED <<rateVars, CmOthers>>
    \/ \E t \in Threads : CmCountWrite(t) /\ UNCHANGED <<rateVars, CmOthers>>
    \/ \E c \in 1..NumComments : CmCollect(c) /\ UNCHANGED <<rateVars, CmOthers>>
    \/ CmBatchDone /\ UNCHANGED <<rateVars, CmOthers>>
    \/ CmTick /\ UNCHANGED <<cmVars, CmOthers>>

CommentsInit == RateStart /\ AsgIdle /\ ModIdle /\ ResIdle /\ GuIdle /\ ExtIdle /\ CmInit

SpecComments == CommentsInit /\ [][CmNext]_vars

Sum(q) == IF q = <<>> THEN 0 ELSE
    LET RECURSIVE S(_)
        S(i) == IF i = 0 THEN 0 ELSE q[i] + S(i - 1)
    IN  S(Len(q))

AllBatchesFinished == batch_num > TotalBatches

(* C8: every outbound HTTP request a worker makes while executing           *)
(* backfill_comment - the CSRF and sign-in requests of its session          *)
(* included - is preceded, since the worker's previous request, by a call   *)
(* to rate_limit_api.                                                       *)
C8_EveryRequestThrottled == unthrottled = {}

GuInit ==
    /\ gpc = [t \in Threads |-> "user"]
    /\ gleft \in [Threads -> 1..UsersPerBatch]
    /\ attempt = [t \in Threads |-> 0]
    /\ guser = [t \in Threads |-> BadOutput]
    /\ uniqueness_lock = NoThread
    /\ used_emails = {}
    /\ used_full_names = {}
    /\ users = [t \in Threads |-> <<>>]
    /\ claude_times = <<>>
    /\ gu_all_users = <<>>
    /\ llm_calls = 0

\* the two most recent entries of a list
LastTwo(q) == IF Len(q) <= 2 THEN q ELSE SubSeq(q, Len(q) - 1, Len(q))

\* "with uniqueness_lock:" may be entered only while no thread holds the lock
UniqLockFreeNoMutex(l) == TRUE
UniqLockFree(l) == l = NoThread

\* str.lower() on the strings that occur as emails and full names
Lower(str) ==
    CASE str = "Ana@X.com" -> "ana@x.com"
      [] str = "Ana Diaz" -> "ana diaz"
      [] OTHER -> str

\* "for i in range(batch_size)": the next user, or the batch returns
GuNextUser(t) ==
    /\ gpc[t] = "user"
    /\ IF gleft[t] > 0
       THEN /\ gleft' = [gleft EXCEPT ![t] = @ - 1]
            /\ gpc' = [gpc EXCEPT ![t] = "sample"]
       ELSE /\ gpc' = [gpc EXCEPT ![t] = "returned"]
            /\ UNCHANGED gleft
    /\ attempt' = [attempt EXCEPT ![t] = 0]
    /\ UNCHANGED <<guser, uniqueness_lock, used_emails, used_full_names, users, claude_times>>
    /\ UNCHANGED <<gu_all_users, llm_calls>>

\* "for attempt in range(max_attempts)": get_used_names_sample() and the prompt,
\* or the for-else once the attempts are exhausted
GuSample(t) ==
    /\ gpc[t] = "sample"
    /\ IF attempt[t] < max_attempts
       THEN /\ UniqLockFree(uniqueness_lock)
            /\ gpc' = [gpc EXCEPT ![t] = "rate_limit_claude"]
       ELSE gpc' = [gpc EXCEPT ![t] = "user"]
    /\ UNCHANGED <<gleft, attempt, guser, uniqueness_lock, used_emails, used_full_names,
                   users, claude_times>>
    /\ UNCHANGED <<gu_all_users, llm_calls>>

\* generate_user.rate_limit_claude(): the function body starts with the
\* statements of get_used_names_sample and returns the sample under
\* uniqueness_lock; the limiter code after that return is never executed, so
\* claude_lock and last_claude_call are left alone and nothing waits
GuRateLimitClaude(t) ==
    /\ gpc[t] = "rate_limit_claude"
    /\ UniqLockFree(uniqueness_lock)
    /\ gpc' = [gpc EXCEPT ![t] = "create"]
    /\ UNCHANGED <<gleft, attempt, guser, uniqueness_lock, used_emails, used_full_names,
                   users, claude_times>>
    /\ UNCHANGED <<gu_all_users, llm_calls>>

\* client.messages.create(...) and the parsing of the answer: an exception,
\* no JSON or missing fields end the attempt, otherwise a user was parsed
GuCreate(t) ==
    /\ gpc[t] = "create"
    /\ llm_calls' = llm_calls + 1
    /\ claude_times' = LastTwo(Append(claude_times, clock))
    /\ \E out \in CandidateUsers \cup {BadOutput} :
         /\ guser' = [guser EXCEPT ![t] = out]
         /\ IF out = BadOutput
            THEN /\ attempt' = [attempt EXCEPT ![t] = @ + 1]
                 /\ gpc' = [gpc EXCEPT ![t] = "sample"]
            ELSE /\ gpc' = [gpc EXCEPT ![t] = "is_unique"]
                 /\ UNCHANGED attempt
    /\ UNCHANGED <<gleft, uniqueness_lock, used_emails, used_full_names, users, gu_all_users>>

\* is_unique_user: the lock is taken and the membership test made; a
\* duplicate returns False (next attempt)
GuIsUnique(t) ==
    /\ gpc[t] = "is_unique"
    /\ UniqLockFree(uniqueness_lock)
    /\ IF Lower(guser[t].email) \in used_emails \/ Lower(guser[t].name) \in used_full_names
       THEN /\ attempt' = [attempt EXCEPT ![t] = @ + 1]
            /\ gpc' = [gpc EXCEPT ![t] = "sample"]
            /\ UNCHANGED uniqueness_lock
       ELSE /\ uniqueness_lock' = t
            /\ gpc' = [gpc EXCEPT ![t] = "reserve"]
            /\ UNCHANGED attempt
    /\ UNCHANGED <<gleft, guser, used_emails, used_full_names, users, claude_times>>
    /\ UNCHANGED <<gu_all_users, llm_calls>>

\* is_unique_user: both sets are extended, the lock is released, True is
\* returned; get_csrf_token() then calls rate_limit_api()
GuReserve(t) ==
    /\ gpc[t] = "reserve"
    /\ used_emails' = used_emails \cup {Lower(guser[t].email)}
    /\ used_full_names' = used_full_names \cup {Lower(guser[t].name)}
    /\ uniqueness_lock' = IF uniqueness_lock = t THEN NoThread ELSE uniqueness_lock
    /\ RateCall(t, "csrf")
    /\ gpc' = [gpc EXCEPT ![t] = "csrf_limit"]
    /\ UNCHANGED <<gleft, attempt, guser, users, claude_times>>
    /\ UNCHANGED <<gu_all_users, llm_calls>>

\* get_csrf_token: requests.get(CSRF_URL) after rate_limit_api() returned; with
\* a token the user is appended and the attempt loop left, without one the
\* next attempt starts
GuCsrf(t) ==
    /\ gpc[t] = "csrf_limit"
    /\ rpc[t] = "idle"
    /\ \E token \in BOOLEAN :
         IF token
         THEN /\ users' = [users EXCEPT ![t] = Append(@, guser[t])]
              /\ gpc' = [gpc EXCEPT ![t] = "user"]
              /\ UNCHANGED attempt
         ELSE /\ attempt' = [attempt EXCEPT ![t] = @ + 1]
              /\ gpc' = [gpc EXCEPT ![t] = "sample"]
              /\ UNCHANGED users
    /\ UNCHANGED <<gleft, guser, uniqueness_lock, used_emails, used_full_names, claude_times>>
    /\ UNCHANGED <<gu_all_users, llm_calls>>

\* main: future.result() of a finished batch and
\* save_users_thread_safe(batch_users), which extends all_users
GuSave(t) ==
    /\ gpc[t] = "returned"
    /\ gpc' = [gpc EXCEPT ![t] = "saved"]
    /\ gu_all_users' = gu_all_users \o users[t]
    /\ UNCHANGED <<gleft, attempt, guser, uniqueness_lock, used_emails, used_full_names,
                   users, claude_times, llm_calls>>

\* the clock advances while a worker sleeps inside rate_limit_api
GuTick ==
    /\ \E t \in Threads : rpc[t] = "sleep" /\ clock < wake[t]
    /\ Tick

GuOthers == <<asgVars, modVars, resVars, cmVars, extVars>>

GuNext ==
    \/ \E t \in Threads : GuNextUser(t) /\ UNCHANGED <<rateVars, GuOthers>>
    \/ \E t \in Threads : GuSample(t) /\ UNCHANGED <<rateVars, GuOthers>>
    \/ \E t \in Threads : GuRateLimitClaude(t) /\ UNCHANGED <<rateVars, GuOthers>>
    \/ \E t \in Threads : GuCreate(t) /\ UNCHANGED <<rateVars, GuOthers>>
    \/ \E t \in Threads : GuIsUnique(t) /\ UNCHANGED <<rateVars, GuOthers>>
    \/ \E t \in Threads : GuReserve(t) /\ UNCHANGED GuOthers
    \/ \E t \in Threads : RateAcquire(t) /\ UNCHANGED <<guVars, GuOthers>>
    \/ \E t \in Threads : RateReadNow(t) /\ UNCHANGED <<guVars, GuOthers>>
    \/ \E t \in Threads : RateWake(t) /\ UNCHANGED <<guVars, GuOthers>>
    \/ \E t \in Threads : RateStamp(t) /\ UNCHANGED <<guVars, GuOthers>>
    \/ \E t \in Threads : GuCsrf(t) /\ UNCHANGED <<rateVars, GuOthers>>
    \/ \E t \in Threads : GuSave(t) /\ UNCHANGED <<rateVars, GuOthers>>
    \/ GuTick /\ UNCHANGED <<guVars, GuOthers>>

GenUserInit == RateStart /\ AsgIdle /\ ModIdle /\ ResIdle /\ CmIdle /\ ExtIdle /\ GuInit

SpecGenUser == GenUserInit /\ [][GuNext]_vars

(* C9: any two Claude requests (client.messages.create) of generate_user    *)
(* are issued at least 1/CLAUDE_RATE_LIMIT seconds apart, under any         *)
(* interleaving of the generate_user_batch workers.                         *)
C9_ClaudeSpacing ==
    \A i \in 1..(Len(claude_times) - 1) :
        claude_times[i + 1] - claude_times[i] >= TicksPerSecond \div GU_CLAUDE_RATE_LIMIT

(* ------------------------------------------------------------------ *)
(* generate_comments: process_project_issues / save_comments_batch    *)
(* ------------------------------------------------------------------ *)
\* "with comments_lock:" may be entered only while no thread holds the lock
CommentsLockFreeNoMutex(l) == TRUE
CommentsLockFree(l) == l = NoThread

\* the batch_comments a worker can collect from one batch of issues: each
\* issue yields its comments, or [] when the generation failed
BatchComments(t, k) ==
    {[j \in 1..n |-> <<t, k, j>>] : n \in 0..2}

\* main(): one worker per project_slug, each with some batches of issues
SvInit ==
    /\ svPc = [t \in Threads |-> "idle"]
    /\ svLeft \in [Threads -> 0..MaxSaves]
    /\ Sum(svLeft) <= MaxSaves
    /\ svBatch = [t \in Threads |-> <<>>]
    /\ all_comments = <<>>
    /\ comments_lock = NoThread
    /\ out_file = <<>>
    /\ snap = [t \in Threads |-> <<>>]
    /\ wrote = [t \in Threads |-> <<>>]
    /\ prev_flush = <<>>
    /\ saved = {}

\* process_project_issues: one batch of issues is processed; an empty
\* batch_comments is not saved
SvGenerate(t) ==
    /\ svPc[t] = "idle"
    /\ svLeft[t] > 0
    /\ \E b \in BatchComments(t, svLeft[t]) :
          /\ svBatch' = [svBatch EXCEPT ![t] = b]
          /\ svPc' = [svPc EXCEPT ![t] = IF b = <<>> THEN "idle" ELSE "save"]
    /\ svLeft' = [svLeft EXCEPT ![t] = @ - 1]
    /\ UNCHANGED <<all_comments, comments_lock, out_file, snap, wrote, prev_flush, saved>>

\* save_comments_batch: with comments_lock
SvAcquire(t) ==
    /\ svPc[t] = "save"
    /\ CommentsLockFree(comments_lock)
    /\ comments_lock' = t
    /\ svPc' = [svPc EXCEPT ![t] = "extend"]
    /\ saved' = saved \cup Range(svBatch[t])
    /\ UNCHANGED <<svLeft, svBatch, all_comments, out_file, snap, wrote, prev_flush>>

\* all_comments.extend(comments_batch)
SvExtend(t) ==
    /\ svPc[t] = "extend"
    /\ all_comments' = all_comments \o svBatch[t]
    /\ snap' = [snap EXCEPT ![t] = all_comments']
    /\ svPc' = [svPc EXCEPT ![t] = "open"]
    /\ UNCHANGED <<svLeft, svBatch, comments_lock, out_file, wrote, prev_flush, saved>>

\* open(OUTPUT_FILE, "w") truncates the file
SvOpen(t) ==
    /\ svPc[t] = "open"
    /\ prev_flush' = out_file
    /\ out_file' = <<>>
    /\ svPc' = [svPc EXCEPT ![t] = "dump"]
    /\ UNCHANGED <<svLeft, svBatch, all_comments, comments_lock, snap, wrote, saved>>

\* json.dump(all_comments, f) and the close of the file
SvDump(t) ==
    /\ svPc[t] = "dump"
    /\ out_file' = all_comments
    /\ wrote' = [wrote EXCEPT ![t] = all_comments]
    /\ svPc' = [svPc EXCEPT ![t] = "flushed"]
    /\ UNCHANGED <<svLeft, svBatch, all_comments, comments_lock, snap, prev_flush, saved>>

\* the end of "with comments_lock:", back in process_project_issues
SvRelease(t) ==
    /\ svPc[t] = "flushed"
    /\ comments_lock' = NoThread
    /\ svPc' = [svPc EXCEPT ![t] = "idle"]
    /\ UNCHANGED <<svLeft, svBatch, all_comments, out_file, snap, wrote, prev_flush, saved>>

SvOthers == <<rateVars, asgVars, modVars, resVars, cmVars, guVars, mbVars, imVars, dsVars, cyVars, mlVars, wrVars, pjVars, rtVars, rlVars>>

SvNext ==
    \/ \E t \in Threads : SvGenerate(t) /\ UNCHANGED SvOthers
    \/ \E t \in Threads : SvAcquire(t) /\ UNCHANGED SvOthers
    \/ \E t \in Threads : SvExtend(t) /\ UNCHANGED SvOthers
    \/ \E t \in Threads : SvOpen(t) /\ UNCHANGED SvOthers
    \/ \E t \in Threads : SvDump(t) /\ UNCHANGED SvOthers
    \/ \E t \in Threads : SvRelease(t) /\ UNCHANGED SvOthers

SaveInit == RateStart /\ AsgIdle /\ ModIdle /\ ResIdle /\ CmIdle /\ GuIdle /\ MbIdle /\ ImIdle /\ DsIdle /\ CyIdle /\ MlIdle /\ WrIdle /\ PjIdle /\ RtIdle /\ RlIdle /\ SvInit

SpecSave == SaveInit /\ [][SvNext]_vars

IsPrefix(p, q) == Len(p) <= Len(q) /\ \A i \in 1..Len(p) : p[i] = q[i]
\* every worker has returned from process_project_issues
AllSaved == \A t \in Threads : svPc[t] = "idle" /\ svLeft[t] = 0

(* C11: under any interleaving of the workers, every flush writes the whole *)
(* of all_comments as it stands after that call's extend, each flushed      *)
(* snapshot extends the previously flushed one, and after the last call the *)
(* file holds every comment of every saved batch exactly once.              *)
C11_FlushesWhole ==
    /\ \A t \in Threads : svPc[t] = "flushed" => wrote[t] = snap[t] /\ out_file = wrote[t]
    /\ (\A t \in Threads : svPc[t] # "dump") => IsPrefix(prev_flush, out_file)
    /\ AllSaved =>
          /\ Range(out_file) = saved
          /\ Len(out_file) = Cardinality(saved)

\* two workers saved batches in turn (one of them twice) and all returned
C11_Witness ==
    /\ AllSaved
    /\ Len(out_file) >= 3
    /\ \E i, j, k \in 1..Len(out_file) :
          /\ i < j /\ j < k
          /\ out_file[i][1] = out_file[k][1]
          /\ out_file[i][1] # out_file[j][1]

(* ------------------------------------------------------------------ *)
(* backfill_modules: get_project_members called by the pool's workers *)
(* ------------------------------------------------------------------ *)
\* main(): the cache starts empty
MbInit == MbIdle

\* get_project_members(workspace_slug, project_id): the test
\* "cache_key not in _cache['members']"; a cached scope is returned at once
MbCheck(t, p) ==
    /\ mbPc[t] = "idle"
    /\ lookups < MaxLookups
    /\ lookups' = lookups + 1
    /\ mbScope' = [mbScope EXCEPT ![t] = p]
    /\ mbPc' = [mbPc EXCEPT ![t] = IF p \in members_cache THEN "idle" ELSE "request"]
    /\ UNCHANGED <<members_cache, requests, late>>

\* get_thread_session(), rate_limit_api() and session.get(.../members/);
\* raise_for_status() raises on an error status and nothing is cached
MbRequest(t) ==
    /\ mbPc[t] = "request"
    /\ requests' = [requests EXCEPT ![mbScope[t]] = @ + 1]
    /\ late' = IF mbScope[t] \in members_cache THEN late \cup {mbScope[t]} ELSE late
    /\ \E ok \in BOOLEAN :
          mbPc' = [mbPc EXCEPT ![t] = IF ok THEN "store" ELSE "idle"]
    /\ UNCHANGED <<mbScope, members_cache, lookups>>

\* _cache["members"][cache_key] = member_ids
MbStore(t) ==
    /\ mbPc[t] = "store"
    /\ members_cache' = members_cache \cup {mbScope[t]}
    /\ mbPc' = [mbPc EXCEPT ![t] = "idle"]
    /\ UNCHANGED <<mbScope, requests, lookups, late>>

MbOthers == <<rateVars, asgVars, modVars, resVars, cmVars, guVars, svVars, imVars, dsVars, cyVars, mlVars, wrVars, pjVars, rtVars, rlVars>>

MbNext ==
    \/ \E t \in Threads, p \in Scopes : MbCheck(t, p) /\ UNCHANGED MbOthers
    \/ \E t \in Threads : MbRequest(t) /\ UNCHANGED MbOthers
    \/ \E t \in Threads : MbStore(t) /\ UNCHANGED MbOthers

MembersInit == RateStart /\ AsgIdle /\ ModIdle /\ ResIdle /\ CmIdle /\ GuIdle /\ SvIdle /\ ImIdle /\ DsIdle /\ CyIdle /\ MlIdle /\ WrIdle /\ PjIdle /\ RtIdle /\ RlIdle /\ MbInit

SpecMembers == MembersInit /\ [][MbNext]_vars

(* C12: for each (workspace, project) scope the members discovery request   *)
(* is issued at most once per run, and once _cache["members"] holds an      *)
(* entry for a scope no further request for it is made.                     *)
C12_RequestedOnce ==
    /\ \A p \in Scopes : requests[p] <= 1
    /\ late = {}

(* ------------------------------------------------------------------ *)
(* backfill_comments: build_issue_mapping / resolve_comment_data /    *)
(* backfill_comment                                                   *)
(* ------------------------------------------------------------------ *)
IssueLists == UNION {[1..n -> IssueNames] : n \in 0..MaxProjectIssues}
RemoteProjects == [name : ProjectNames, status : {200, 500}, issues : IssueLists]
CommentRecords ==
    [issue_name : IssueNames \cup {UnknownIssue},
     project_slug : {<<"acme", n>> : n \in ProjectNames} \cup {<<n>> : n \in ProjectNames}]

\* get_issues_for_project: the issues on a 200 answer, [] on any other status
GetIssuesForProject(project) ==
    IF project.status = 200 THEN project.issues ELSE <<>>

\* the inner loop of build_issue_mapping over the issues of project i: the
\* key is "project_name::issue_name"
RECURSIVE MapIssues(_, _, _, _, _)
MapIssues(project, i, issues, j, mapping) ==
    IF j > Len(issues) THEN mapping
    ELSE MapIssues(project, i, issues, j + 1,
                   DictSet(mapping, <<project.name, issues[j]>>, <<i, j>>))

\* the loop of build_issue_mapping over the discovered projects
RECURSIVE BuildIssueMapping(_, _, _)
BuildIssueMapping(projects, i, mapping) ==
    IF i > Len(projects) THEN mapping
    ELSE BuildIssueMapping(projects, i + 1,
            MapIssues(projects[i], i, GetIssuesForProject(projects[i]), 1, mapping))

\* build_issue_mapping(): the memoized mapping, built on first use
IssueMappingNow ==
    IF issue_mapping.built THEN issue_mapping.entries
    ELSE BuildIssueMapping(imProjects, 1, <<>>)

\* project_slug.split("/")[-1]
LastSegment(slug) == slug[Len(slug)]

\* key.endswith("::" + issue_name)
KeyEndsWith(key, issue_name) == key[2] = issue_name

\* resolve_comment_data: the issue_info, or <<0, 0>> for None
ResolveComment(mapping, c) ==
    LET issue_key == <<LastSegment(c.project_slug), c.issue_name>>
        hits == {i \in 1..Len(mapping) : KeyEndsWith(mapping[i][1], c.issue_name)}
    IN  IF HasKey(mapping, issue_key) THEN Lookup(mapping, issue_key)
        ELSE IF hits # {} THEN mapping[CHOOSE i \in hits : \A h \in hits : i <= h][2]
        ELSE <<0, 0>>

\* a backfill_comments run starts against some remote system
ImInit ==
    /\ imProjects \in UNION {[1..n -> RemoteProjects] : n \in 0..MaxRemote}
    /\ issue_mapping = [built |-> FALSE, entries |-> <<>>]
    /\ imLast = [comment |-> NoComment, result |-> "none", issue |-> <<0, 0>>]
    /\ imHandled = 0

\* backfill_comment(c) for a comment with both fields: the resolution, then
\* either "Issue not found in system" or the POST, which the server accepts
\* or not
ImBackfillComment(c) ==
    /\ imHandled < MaxHandled
    /\ imHandled' = imHandled + 1
    /\ issue_mapping' = [built |-> TRUE, entries |-> IssueMappingNow]
    /\ LET issue_info == ResolveComment(IssueMappingNow, c)
       IN  IF issue_info = <<0, 0>>
           THEN imLast' = [comment |-> c, result |-> "dropped", issue |-> issue_info]
           ELSE \E r \in {"posted", "rejected"} :
                   imLast' = [comment |-> c, result |-> r, issue |-> issue_info]
    /\ UNCHANGED imProjects

ImOthers == <<rateVars, asgVars, modVars, resVars, cmVars, guVars, svVars, mbVars, dsVars, cyVars, mlVars, wrVars, pjVars, rtVars, rlVars>>

ImNext ==
    \/ \E c \in CommentRecords : ImBackfillComment(c) /\ UNCHANGED ImOthers

IssueMapInit == RateStart /\ AsgIdle /\ ModIdle /\ ResIdle /\ CmIdle /\ GuIdle /\ SvIdle /\ MbIdle /\ DsIdle /\ CyIdle /\ MlIdle /\ WrIdle /\ PjIdle /\ RtIdle /\ RlIdle /\ ImInit

SpecIssueMap == IssueMapInit /\ [][ImNext]_vars

(* C13: if the issue-list discovery request of any project returns a        *)
(* non-200 status, the build is aborted with an error: no mapping built     *)
(* without that project's issues is memoized in _cache["issue_mapping"]     *)
(* and used for resolution.                                                 *)
C13_NoPartialMapping ==
    issue_mapping.built => \A i \in 1..Len(imProjects) : imProjects[i].status = 200

(* C15: a comment whose issue_name matches no key of a non-empty issue      *)
(* mapping falls back to some mapped issue and is still posted; it is not   *)
(* dropped and counted as an error.                                         *)
C15_MissFallsBack ==
    ( /\ imLast.result # "none"
      /\ issue_mapping.entries # <<>>
      /\ \A i \in 1..Len(issue_mapping.entries) :
            ~KeyEndsWith(issue_mapping.entries[i][1], imLast.comment.issue_name) )
    => /\ imLast.result \in {"posted", "rejected"}
       /\ \E i \in 1..Len(issue_mapping.entries) : issue_mapping.entries[i][2] = imLast.issue

(* ------------------------------------------------------------------ *)
(* Discovery functions and the two response shapes                    *)
(* ------------------------------------------------------------------ *)
\* a JSON value of a response list: a record (dict) with "id" and "member"
\* fields (0 when absent or null), or a string
JsonItems ==
    [kind : {"dict"}, id : 0..2, member : 0..1] \cup [kind : {"str"}, id : {0}, member : {0}]
JsonLists == UNION {[1..n -> JsonItems] : n \in 0..MaxRecords}

\* r.json() for the two shapes of a response carrying the list L
BareArray(L) == [shape |-> "list", results |-> L]
Envelope(L) == [shape |-> "dict", results |-> L]

\* "for x in data": a list yields its elements, a dict yields its keys
Iterate(data) ==
    IF data.shape = "dict" THEN <<[kind |-> "str", id |-> 0, member |-> 0]>>
    ELSE data.results

\* [f(x) for x in q if keep(x)]
RECURSIVE SelectIds(_, _)
SelectIds(q, field) ==
    IF q = <<>> THEN <<>>
    ELSE LET x == Head(q)
             v == IF field = "member" THEN x.member ELSE x.id
         IN  IF x.kind = "dict" /\ v # 0 THEN <<v>> \o SelectIds(Tail(q), field)
             ELSE SelectIds(Tail(q), field)

\* assign_issues_to_cycles.try_get_json
TryGetJson(data) ==
    IF data.shape = "dict" THEN data.results ELSE data.results

\* assign_issues_to_cycles.get_project_issues / get_project_cycles on a 200
GetProjectIssues(data) ==
    LET json == TryGetJson(data) IN IF json # <<>> THEN json ELSE <<>>

\* backfill_issue.get_project_members
GetProjectMembers(data) == SelectIds(Iterate(data), "member")

\* backfill_issue.get_project_cycles on a 200
GetProjectCycles(data) == SelectIds(Iterate(data), "id")

\* backfill_issue.get_project_modules on a 200: "results" is unwrapped first
GetProjectModules(data) ==
    SelectIds(IF data.shape = "dict" THEN data.results ELSE Iterate(data), "id")

\* backfill_issue.get_project_states, first endpoint answering 200, for
\* records without a project field
GetProjectStates(data) ==
    SelectIds(IF data.shape = "dict" THEN data.results ELSE Iterate(data), "id")

DiscoveryFunctions ==
    {"get_project_issues", "get_project_members", "get_project_cycles",
     "get_project_modules", "get_project_states"}

Discover(f, data) ==
    CASE f = "get_project_issues" -> GetProjectIssues(data)
      [] f = "get_project_members" -> GetProjectMembers(data)
      [] f = "get_project_cycles" -> GetProjectCycles(data)
      [] f = "get_project_modules" -> GetProjectModules(data)
      [] f = "get_project_states" -> GetProjectStates(data)

\* the server holds some list of records
DsInit ==
    /\ dsList \in JsonLists
    /\ dsFn = "none"
    /\ dsBare = <<>>
    /\ dsEnv = <<>>

\* discovery function f called (on a cold cache) against each response shape
DsCall(f) ==
    /\ dsFn' = f
    /\ dsBare' = Discover(f, BareArray(dsList))
    /\ dsEnv' = Discover(f, Envelope(dsList))
    /\ UNCHANGED dsList

DsOthers == <<rateVars, asgVars, modVars, resVars, cmVars, guVars, svVars, mbVars, imVars, cyVars, mlVars, wrVars, pjVars, rtVars, rlVars>>

DsNext ==
    \/ \E f \in DiscoveryFunctions : DsCall(f) /\ UNCHANGED DsOthers

DiscoveryInit == RateStart /\ AsgIdle /\ ModIdle /\ ResIdle /\ CmIdle /\ GuIdle /\ SvIdle /\ MbIdle /\ ImIdle /\ CyIdle /\ MlIdle /\ WrIdle /\ PjIdle /\ RtIdle /\ RlIdle /\ DsInit

SpecDiscovery == DiscoveryInit /\ [][DsNext]_vars

(* C16: every discovery function returns the same collection for the        *)
(* envelope response {"results": L} as for the bare array L.                *)
C16_SameForBothShapes ==
    dsFn # "none" => dsEnv = dsBare

(* ------------------------------------------------------------------ *)
(* backfill_cycles.main / backfill_issue.main: the per-item loop      *)
(* ------------------------------------------------------------------ *)
\* what can happen to one item: the resolver raises, the create call
\* returns a non-201 status, the create call raises, or the item is created
ItemOutcomes == {"resolver_raises", "status_error", "create_raises", "created"}

\* failed_count += 1
CountFailureDropped(n) == n
CountFailure(n) == n + 1

\* the loop is about to start: the input file was read (backfill_cycles
\* returns before the loop on an empty list) and projects were discovered
MlInit ==
    /\ mlScript \in {"cycles", "issue"}
    /\ mlItems \in UNION {[1..n -> ItemOutcomes] : n \in 0..MaxItems}
    /\ mlScript = "cycles" => mlItems # <<>>
    /\ mlPc = "next"
    /\ mlIdx = 1
    /\ ml_success = 0
    /\ ml_failed = 0
    /\ mlAttempted = <<>>

\* "for i, item in enumerate(items, 1)": resolve_cycle_data /
\* resolve_issue_data inside the try
MlResolve ==
    /\ mlPc = "next"
    /\ mlIdx <= Len(mlItems)
    /\ mlAttempted' = Append(mlAttempted, mlIdx)
    /\ mlPc' = IF mlItems[mlIdx] = "resolver_raises" THEN "except" ELSE "create"
    /\ UNCHANGED <<mlScript, mlItems, mlIdx, ml_success, ml_failed>>

\* create_cycle / create_issue and the count of its result
MlCreate ==
    /\ mlPc = "create"
    /\ CASE mlItems[mlIdx] = "created" ->
               /\ ml_success' = ml_success + 1
               /\ mlIdx' = mlIdx + 1
               /\ mlPc' = "next"
               /\ UNCHANGED ml_failed
         [] mlItems[mlIdx] = "status_error" ->
               /\ ml_failed' = CountFailure(ml_failed)
               /\ mlIdx' = mlIdx + 1
               /\ mlPc' = "next"
               /\ UNCHANGED ml_success
         [] OTHER ->
               /\ mlPc' = "except"
               /\ UNCHANGED <<mlIdx, ml_success, ml_failed>>
    /\ UNCHANGED <<mlScript, mlItems, mlAttempted>>

\* except Exception: failed_count += 1, and on to the next item
MlExcept ==
    /\ mlPc = "except"
    /\ ml_failed' = CountFailure(ml_failed)
    /\ mlIdx' = mlIdx + 1
    /\ mlPc' = "next"
    /\ UNCHANGED <<mlScript, mlItems, ml_success, mlAttempted>>

\* the loop is over: the final statistics are printed
MlFinish ==
    /\ mlPc = "next"
    /\ mlIdx > Len(mlItems)
    /\ mlPc' = "done"
    /\ UNCHANGED <<mlScript, mlItems, mlIdx, ml_success, ml_failed, mlAttempted>>

MlOthers == <<rateVars, asgVars, modVars, resVars, cmVars, guVars, svVars, mbVars, imVars, dsVars, cyVars, wrVars, pjVars, rtVars, rlVars>>

MlNext ==
    \/ MlResolve /\ UNCHANGED MlOthers
    \/ MlCreate /\ UNCHANGED MlOthers
    \/ MlExcept /\ UNCHANGED MlOthers
    \/ MlFinish /\ UNCHANGED MlOthers

MainLoopInit == RateStart /\ AsgIdle /\ ModIdle /\ ResIdle /\ CmIdle /\ GuIdle /\ SvIdle /\ MbIdle /\ ImIdle /\ DsIdle /\ CyIdle /\ WrIdle /\ PjIdle /\ RtIdle /\ RlIdle /\ MlInit

SpecMainLoop == MainLoopInit /\ [][MlNext]_vars

(* C20: for every sequence of per-item outcomes, every item of the input    *)
(* file is attempted in order, no item's failure stops the loop, and at the *)
(* end success_count + failed_count equals the number of input items.       *)
C20_EveryItemAttempted ==
    /\ \A j \in 1..Len(mlAttempted) : mlAttempted[j] = j
    /\ mlPc = "done" =>
          /\ Len(mlAttempted) = Len(mlItems)
          /\ ml_success + ml_failed = Len(mlItems)
          /\ ml_success = Cardinality({j \in 1..Len(mlItems) : mlItems[j] = "created"})

\* each kind of failure happened and an item after them was still created
C20_Witness ==
    /\ mlPc = "done"
    /\ mlItems = <<"resolver_raises", "status_error", "create_raises", "created">>
    /\ ml_success = 1
    /\ ml_failed = 3

(* ------------------------------------------------------------------ *)
(* Create / link writes: which response statuses count as a success   *)
(* ------------------------------------------------------------------ *)
WriteFunctions ==
    {"create_cycle", "create_issue", "backfill_module", "backfill_view",
     "backfill_comment", "assign_issue_to_cycle", "assign_modules_to_issue",
     "create_issue_relation", "add_sub_issues"}

ResponseStatuses == {200, 201, 400, 500}

\* the statuses on which the function reports a success:
\* "r.status_code == 201" in create_cycle and create_issue,
\* "resp.status_code in (200, 201)" in the others
SuccessStatuses(f) ==
    IF f \in {"create_cycle", "create_issue"} THEN {201} ELSE {200, 201}

WrInit == WrIdle

\* one write request of function f answered with some status, and the
\* caller's count of its result
WrCall(f) ==
    /\ wr_success + wr_failed < MaxWrites
    /\ \E status \in ResponseStatuses :
          /\ wrStatus' = status
          /\ IF status \in SuccessStatuses(f)
             THEN wr_success' = wr_success + 1 /\ UNCHANGED wr_failed
             ELSE wr_failed' = wr_failed + 1 /\ UNCHANGED wr_success
    /\ wrFn' = f

WrOthers == <<rateVars, asgVars, modVars, resVars, cmVars, guVars, svVars, mbVars, imVars, dsVars, cyVars, mlVars, pjVars, rtVars, rlVars>>

WrNext ==
    \/ \E f \in WriteFunctions : WrCall(f) /\ UNCHANGED WrOthers

WritesInit == RateStart /\ AsgIdle /\ ModIdle /\ ResIdle /\ CmIdle /\ GuIdle /\ SvIdle /\ MbIdle /\ ImIdle /\ DsIdle /\ CyIdle /\ MlIdle /\ PjIdle /\ RtIdle /\ RlIdle /\ WrInit

SpecWrites == WritesInit /\ [][WrNext]_vars

(* C21: every create or link write whose response status is 200 or 201 is   *)
(* counted as a success and never as a failure, in every backfill script.   *)
C21_SuccessCodesCounted ==
    [][wrStatus' \in {200, 201} => (wr_success' = wr_success + 1 /\ wr_failed' = wr_failed)]_vars

(* ------------------------------------------------------------------ *)
(* backfill_projects.main / create_projects / assign_users_to_projects *)
(* ------------------------------------------------------------------ *)
\* "return total_created + total_existing > 0"
ProjectsAvailableAlways(created, existing) == TRUE
ProjectsAvailable(created, existing) == created + existing > 0

\* main() has authenticated and calls create_projects(session)
PjInit ==
    /\ pjPc = "create"
    /\ pjResults \in UNION {[1..n -> {"created", "exists", "failed"}] : n \in 0..MaxProjectsFile}
    /\ pjIdx = 1
    /\ total_created = 0
    /\ total_existing = 0
    /\ total_failed = 0
    /\ pjLinks = 0
    /\ pjLog = <<>>

\* one iteration of the creation loop: the POST and the count of its answer
PjCreate ==
    /\ pjPc = "create"
    /\ pjIdx <= Len(pjResults)
    /\ pjLog' = Append(pjLog, "create")
    /\ total_created' = total_created + (IF pjResults[pjIdx] = "created" THEN 1 ELSE 0)
    /\ total_existing' = total_existing + (IF pjResults[pjIdx] = "exists" THEN 1 ELSE 0)
    /\ total_failed' = total_failed + (IF pjResults[pjIdx] = "failed" THEN 1 ELSE 0)
    /\ pjIdx' = pjIdx + 1
    /\ UNCHANGED <<pjPc, pjResults, pjLinks>>

\* create_projects returns; main stops when no project is available, else
\* sleeps and calls assign_users_to_projects, which discovers the projects
PjCreateReturn ==
    /\ pjPc = "create"
    /\ pjIdx > Len(pjResults)
    /\ IF ProjectsAvailable(total_created, total_existing)
       THEN /\ pjPc' = "assign"
            /\ pjLinks' \in 0..MaxLinks
       ELSE /\ pjPc' = "stopped"
            /\ UNCHANGED pjLinks
    /\ UNCHANGED <<pjResults, pjIdx, total_created, total_existing, total_failed, pjLog>>

\* add_members_to_project for the next discovered project
PjLink ==
    /\ pjPc = "assign"
    /\ pjLinks > 0
    /\ pjLinks' = pjLinks - 1
    /\ pjLog' = Append(pjLog, "link")
    /\ UNCHANGED <<pjPc, pjResults, pjIdx, total_created, total_existing, total_failed>>

\* assign_users_to_projects returns and main prints the summary
PjAssignReturn ==
    /\ pjPc = "assign"
    /\ pjLinks = 0
    /\ pjPc' = "done"
    /\ UNCHANGED <<pjResults, pjIdx, total_created, total_existing, total_failed,
                   pjLinks, pjLog>>

PjOthers == <<rateVars, asgVars, modVars, resVars, cmVars, guVars, svVars, mbVars, imVars, dsVars, cyVars, mlVars, wrVars, rtVars, rlVars>>

PjNext ==
    \/ PjCreate /\ UNCHANGED PjOthers
    \/ PjCreateReturn /\ UNCHANGED PjOthers
    \/ PjLink /\ UNCHANGED PjOthers
    \/ PjAssignReturn /\ UNCHANGED PjOthers

PhasesInit == RateStart /\ AsgIdle /\ ModIdle /\ ResIdle /\ CmIdle /\ GuIdle /\ SvIdle /\ MbIdle /\ ImIdle /\ DsIdle /\ CyIdle /\ MlIdle /\ WrIdle /\ RtIdle /\ RlIdle /\ PjInit

SpecPhases == PhasesInit /\ [][PjNext]_vars

(* C22: no member-to-project link request is issued before every            *)
(* project-creation request has completed, and the assignment phase is      *)
(* never started when no project was created or already existed.            *)
C22_CreationBeforeLinking ==
    /\ \A i \in 1..Len(pjLog) :
          pjLog[i] = "link" =>
              /\ Cardinality({j \in 1..(i - 1) : pjLog[j] = "create"}) = Len(pjResults)
              /\ \A j \in (i + 1)..Len(pjLog) : pjLog[j] # "create"
    /\ (pjPc \in {"assign", "done"} \/ \E i \in 1..Len(pjLog) : pjLog[i] = "link") =>
          \E k \in 1..Len(pjResults) : pjResults[k] \in {"created", "exists"}

\* a failed, an existing and a created project, then two link requests
C22_Witness ==
    /\ pjPc = "done"
    /\ pjResults = <<"failed", "exists", "created">>
    /\ pjLog = <<"create", "create", "create", "link", "link">>

(* ------------------------------------------------------------------ *)
(* backfill_comments: what a worker holds while a request is pending  *)
(* ------------------------------------------------------------------ *)
\* worker t has an outbound HTTP request pending (the CSRF GET, the login
\* POST or the comment POST)
RequestPending(t) == cpc[t] \in {"csrf", "login", "post"}

(* C23: a worker whose outbound HTTP request never returns holds neither    *)
(* api_lock nor results_lock while it waits, so the other workers can still *)
(* pass rate_limit_api, update the counters and finish their comments.      *)
C23_PendingRequestHoldsNoLock ==
    \A t \in Threads :
        RequestPending(t) =>
            /\ lock["api"] # t
            /\ results_lock # t
            /\ rpc[t] = "idle"

\* one worker waits for the answer to its comment POST; another worker has
\* passed rate_limit_api, posted and counted its own comment
C23_Witness ==
    \E t \in Threads :
        /\ cpc[t] = "post"
        /\ ccomment[t] = 1
        /\ Len(stamps["api"]) >= 2
        /\ \E c \in 2..NumComments : task[c] = "succeeded" /\ counted[c] = 1
        /\ success_count >= 1

(* ------------------------------------------------------------------ *)
(* backfill_issue_relations: the two budgets side by side             *)
(* ------------------------------------------------------------------ *)
\* thread t is inside the with block of budget b's limiter
InsideLimiter(t, b) == rbudget[t] = b /\ rpc[t] \in {"now", "sleep", "stamp"}

\* a thread that cannot enter a limiter is kept out by a thread inside the
\* limiter of the same budget, and by nothing else
OnlyOwnBudgetDelays ==
    \A t \in Threads, b \in RelationBudgets :
        (rpc[t] = "lock" /\ rbudget[t] = b /\ ~ENABLED RateAcquire(t)) =>
            \E u \in Threads \ {t} : InsideLimiter(u, b)

\* a timestamp changes only in a step of a thread that is inside that
\* budget's limiter and holds that budget's lock
OnlyOwnStampWritten ==
    \A b \in RelationBudgets :
        last'[b] # last[b] =>
            \E t \in Threads : InsideLimiter(t, b) /\ lock[b] = t /\ rpc'[t] = "idle"

(* C24: the Claude budget and the REST budget of backfill_issue_relations   *)
(* are independent: a thread waiting or sleeping inside one limiter never   *)
(* delays a thread calling the other, and each timestamp is written only    *)
(* under its own lock by a thread of its own limiter.                       *)
C24_BudgetsIndependent == [](OnlyOwnBudgetDelays) /\ [][OnlyOwnStampWritten]_vars

\* one thread sleeps inside rate_limit_claude while another thread, having
\* entered rate_limit_api meanwhile, is about to write last_api_call
C24_Witness ==
    \E t, u \in Threads :
        /\ rpc[t] = "sleep" /\ rbudget[t] = "claude" /\ clock < wake[t]
        /\ lock["claude"] = t
        /\ rpc[u] = "stamp" /\ rbudget[u] = "api" /\ lock["api"] = u

(* ------------------------------------------------------------------ *)
(* generate_cycles_meta / generate_user_batch: the retry loops        *)
(* ------------------------------------------------------------------ *)
\* "for attempt in range(1, 4)"
CyclesAttempts == 1..3

\* "temperature = 0.6 if attempt == 1 else 0.0", in tenths
CyclesTemperature(a) == IF a = 1 THEN 6 ELSE 0

\* "temperature=0.9 + (attempt * 0.1)", in tenths
UserTemperature(a) == 9 + a * 1

\* "for attempt in range(max_attempts)": attempt a is made
UserAttemptMadeOneMore(a) == a <= max_attempts
UserAttemptMade(a) == a < max_attempts

\* what one request of generate_cycles_meta leads to: an exception of
\* client.messages.create, an answer that fails the validation, a valid array
CyclesOutcomes == {"exception", "invalid", "valid"}

\* what one attempt of generate_user_batch leads to
UserOutcomes == {"exception", "no_json", "missing_fields", "duplicate", "no_csrf", "appended"}

RtInit == RtIdle

\* generate_cycles_meta(project_name, project_description, count) is called
RtCallCycles ==
    /\ rtPc = "idle"
    /\ Len(rtLog) < MaxRetryItems
    /\ rtFn' = "generate_cycles_meta"
    /\ rtPc' = "attempt"
    /\ rtAttempt' = 1
    /\ rtTemps' = <<>>
    /\ rtSize' = 0
    /\ rtUser' = 0
    /\ UNCHANGED rtLog

\* one pass of the loop of generate_cycles_meta: the request is sent; a valid
\* array is returned, anything else goes to the next attempt, and after the
\* last attempt [] is returned
RtCyclesAttempt ==
    /\ rtFn = "generate_cycles_meta"
    /\ rtPc = "attempt"
    /\ \E out \in CyclesOutcomes :
         LET sent == Append(rtTemps, CyclesTemperature(rtAttempt))
         IN  IF out = "valid"
             THEN /\ rtLog' = Append(rtLog, [fn |-> rtFn, user |-> 0, temps |-> sent, kept |-> TRUE])
                  /\ rtPc' = "idle"
                  /\ rtTemps' = <<>>
                  /\ UNCHANGED rtAttempt
             ELSE IF rtAttempt + 1 \in CyclesAttempts
             THEN /\ rtAttempt' = rtAttempt + 1
                  /\ rtTemps' = sent
                  /\ UNCHANGED <<rtPc, rtLog>>
             ELSE /\ rtLog' = Append(rtLog, [fn |-> rtFn, user |-> 0, temps |-> sent, kept |-> FALSE])
                  /\ rtPc' = "idle"
                  /\ rtTemps' = <<>>
                  /\ UNCHANGED rtAttempt
    /\ UNCHANGED <<rtFn, rtSize, rtUser>>

\* generate_user_batch((batch_num, batch_size, start_idx)) is called
RtCallUsers(n) ==
    /\ rtPc = "idle"
    /\ Len(rtLog) + n <= MaxRetryItems
    /\ rtFn' = "generate_user_batch"
    /\ rtPc' = "attempt"
    /\ rtAttempt' = 0
    /\ rtTemps' = <<>>
    /\ rtSize' = n
    /\ rtUser' = 1
    /\ UNCHANGED rtLog

\* one pass of the attempt loop of generate_user_batch: the request is sent;
\* an appended user leaves the loop (break), anything else goes to the next
\* attempt, and the for-else drops the user; then the next user, or return
RtUserAttempt ==
    /\ rtFn = "generate_user_batch"
    /\ rtPc = "attempt"
    /\ \E out \in UserOutcomes :
         LET sent == Append(rtTemps, UserTemperature(rtAttempt))
             done == out = "appended" \/ ~UserAttemptMade(rtAttempt + 1)
         IN  IF done
             THEN /\ rtLog' = Append(rtLog, [fn |-> rtFn, user |-> rtUser, temps |-> sent,
                                             kept |-> (out = "appended")])
                  /\ rtTemps' = <<>>
                  /\ rtAttempt' = 0
                  /\ IF rtUser < rtSize
                     THEN rtUser' = rtUser + 1 /\ UNCHANGED rtPc
                     ELSE rtPc' = "idle" /\ UNCHANGED rtUser
             ELSE /\ rtAttempt' = rtAttempt + 1
                  /\ rtTemps' = sent
                  /\ UNCHANGED <<rtPc, rtUser, rtLog>>
    /\ UNCHANGED <<rtFn, rtSize>>

RtOthers == <<rateVars, asgVars, modVars, resVars, cmVars, guVars, svVars, mbVars, imVars, dsVars, cyVars, mlVars, wrVars, pjVars, rlVars>>

RtNext ==
    \/ RtCallCycles /\ UNCHANGED RtOthers
    \/ RtCyclesAttempt /\ UNCHANGED RtOthers
    \/ \E n \in 1..MaxBatch : RtCallUsers(n) /\ UNCHANGED RtOthers
    \/ RtUserAttempt /\ UNCHANGED RtOthers

RetryInit == RateStart /\ AsgIdle /\ ModIdle /\ ResIdle /\ CmIdle /\ GuIdle /\ SvIdle /\ MbIdle /\ ImIdle /\ DsIdle /\ CyIdle /\ MlIdle /\ WrIdle /\ PjIdle /\ RlIdle /\ RtInit

\* both loops are sequential code: a pass that can be made is made
SpecRetry ==
    /\ RetryInit
    /\ [][RtNext]_vars
    /\ WF_vars(RtCyclesAttempt /\ UNCHANGED RtOthers)
    /\ WF_vars(RtUserAttempt /\ UNCHANGED RtOthers)

\* the requests sent for every finished and for the current project / user
RequestLists == {rtLog[i].temps : i \in 1..Len(rtLog)} \cup {rtTemps}

\* the bound on the requests of one project (generate_cycles_meta) or user
RequestBound(fn) == IF fn = "generate_cycles_meta" THEN Cardinality(CyclesAttempts) ELSE max_attempts

\* no project and no user gets more requests than its bound; a project or
\* user without a result got exactly that many; a batch that returned has
\* dealt with each of its users, dropped or not
RetriesBounded ==
    /\ \A i \in 1..Len(rtLog) :
         /\ Len(rtLog[i].temps) \in 1..RequestBound(rtLog[i].fn)
         /\ ~rtLog[i].kept => Len(rtLog[i].temps) = RequestBound(rtLog[i].fn)
    /\ Len(rtTemps) < RequestBound(rtFn)
    /\ (rtFn = "generate_user_batch" /\ rtPc = "idle") =>
         /\ Len(rtLog) >= rtSize
         /\ \A k \in 1..rtSize : rtLog[Len(rtLog) - rtSize + k].user = k

(* C25: generation retries are bounded and always terminate:                *)
(* generate_cycles_meta sends at most 3 requests per project and returns [] *)
(* when none is valid; generate_user_batch makes at most 5 attempts per     *)
(* user, then drops that user and goes on with the next one.                *)
C25_RetriesBoundedAndTerminate == [](RetriesBounded) /\ (rtPc = "attempt" ~> rtPc = "idle")

\* a batch of two users returned: the first was dropped after max_attempts
\* attempts and the second was still generated; before it, a
\* generate_cycles_meta call returned [] after its last attempt
C25_Witness ==
    /\ rtPc = "idle"
    /\ rtFn = "generate_user_batch"
    /\ Len(rtLog) = 3
    /\ rtLog[1].fn = "generate_cycles_meta" /\ ~rtLog[1].kept /\ Len(rtLog[1].temps) = 3
    /\ rtLog[2].user = 1 /\ ~rtLog[2].kept /\ Len(rtLog[2].temps) = max_attempts
    /\ rtLog[3].user = 2 /\ rtLog[3].kept

\* the temperatures of consecutive requests never go down and the first
\* retry is sent with a higher temperature than the first request
Increasing(temps) ==
    /\ \A k \in 1..(Len(temps) - 1) : temps[k + 1] >= temps[k]
    /\ Len(temps) >= 2 => temps[2] > temps[1]

(* C26: in every generation retry loop the temperature sent on attempt k+1  *)
(* is greater than or equal to the one sent on attempt k, and strictly      *)
(* greater on at least the first retry.                                     *)
C26_TemperatureNeverDecreases == \A temps \in RequestLists : Increasing(temps)

(* ------------------------------------------------------------------ *)
(* Upper and lower bounds of the generated assignments                *)
(* ------------------------------------------------------------------ *)
(* C27: after create_realistic_assignments returns, no project has more     *)
(* than MAX_MEMBERS_PER_PROJECT = 8 members.                                *)
C27_ProjectMaximum ==
    asgPc = "done" =>
        \A p \in Projects : Cardinality(project_assignments[p]) <= MAX_MEMBERS_PER_PROJECT

(* C28: for non-empty lists of issues and modules that all carry ids, after *)
(* create_issue_module_assignments returns every module has between         *)
(* MIN_ISSUES_PER_MODULE = 1 and MAX_ISSUES_PER_MODULE = 3 issues and no    *)
(* issue is listed twice for the same module.                               *)
C28_IssuesPerModule ==
    (/\ modPc = "done"
     /\ nIssues > 0 /\ nModules > 0
     /\ issueIds = 1..nIssues /\ moduleIds = 1..nModules) =>
        \A j \in 1..nModules :
            /\ j \in DOMAIN assignments
            /\ Len(assignments[j]) >= MIN_ISSUES_PER_MODULE
            /\ Len(assignments[j]) <= MAX_ISSUES_PER_MODULE
            /\ \A a, b \in 1..Len(assignments[j]) :
                   a # b => assignments[j][a] # assignments[j][b]

(* ------------------------------------------------------------------ *)
(* backfill_issue_relations: convert_references_to_ids and            *)
(* process_project_relationships                                      *)
(* ------------------------------------------------------------------ *)
\* the API id of the k-th issue of the project, and the value of a failed
\* dict.get
IssueId(k) == 10 + k
None == 0

\* the references the analysis may use: "issue_k" for the k-th issue, and
\* reference 0, which names no issue of the project
Refs(n) == 0..n
RefLists(n) == UNION {[1..k -> Refs(n)] : k \in 0..MaxRefs}

\* issue_ids = [i.get("id") for i in issues]
IssueIdsOf(n) == {IssueId(k) : k \in 1..n}

\* ref_to_id.get(ref)
RefToId(n, ref) == IF ref \in 1..n THEN IssueId(ref) ELSE None

\* [ref_to_id.get(ref) for ref in refs if ref_to_id.get(ref)]
ConvertRefs(n, refs) ==
    SelectSeq([i \in 1..Len(refs) |-> RefToId(n, refs[i])], LAMBDA id : id # None)

\* valid_children = [cid for cid in children_ids if cid in issue_ids]
ValidChildren(n, parent_id, children_ids) ==
    SelectSeq(children_ids, LAMBDA cid : cid \in IssueIdsOf(n))

\* valid_related = [rid for rid in related_ids if rid in issue_ids and rid != issue_id]
ValidRelated(n, issue_id, related_ids) ==
    SelectSeq(related_ids, LAMBDA rid : rid \in IssueIdsOf(n) /\ rid # issue_id)

\* a worker calls process_project_relationships for a project
RlInit ==
    /\ rlPc = "start"
    /\ rlIssues \in 0..MaxRlIssues
    /\ rlSeen = 0
    /\ rlLast = NoRequest
    /\ sub_items_created = 0
    /\ relations_created = 0

\* fewer than two issues or no analysis: {"sub_items": 0, "relations": 0} is
\* returned; otherwise the sub-item loop starts
RlStart ==
    /\ rlPc = "start"
    /\ \E analysis \in BOOLEAN :
         rlPc' = IF rlIssues < 2 \/ ~analysis THEN "done" ELSE "sub_items"
    /\ UNCHANGED <<rlIssues, rlSeen, rlLast, sub_items_created, relations_created>>

\* one sub-item suggestion of the analysis: converted by
\* convert_references_to_ids, then checked and sent by the sub-item loop
RlSubItem ==
    /\ rlPc = "sub_items"
    /\ rlSeen < MaxSuggestions
    /\ rlSeen' = rlSeen + 1
    /\ \E parent_ref \in Refs(rlIssues), children_refs \in RefLists(rlIssues), ok \in BOOLEAN :
         LET parent_id == RefToId(rlIssues, parent_ref)
             children_ids == ConvertRefs(rlIssues, children_refs)
             valid_children == ValidChildren(rlIssues, parent_id, children_ids)
         IN  IF \/ parent_id = None
                \/ children_ids = <<>>
                \/ parent_id \notin IssueIdsOf(rlIssues)
                \/ valid_children = <<>>
             THEN UNCHANGED <<rlLast, sub_items_created>>
             ELSE /\ rlLast' = [fn |-> "add_sub_issues", issue |-> parent_id,
                                others |-> valid_children, relation_type |-> "none"]
                  /\ sub_items_created' =
                        IF ok THEN sub_items_created + Len(valid_children)
                        ELSE sub_items_created
    /\ UNCHANGED <<rlPc, rlIssues, relations_created>>

\* the sub-item loop ends, the relation loop starts
RlSubItemsDone ==
    /\ rlPc = "sub_items"
    /\ rlPc' = "relations"
    /\ UNCHANGED <<rlIssues, rlSeen, rlLast, sub_items_created, relations_created>>

\* one relation suggestion of the analysis: converted, checked and sent
RlRelation ==
    /\ rlPc = "relations"
    /\ rlSeen < MaxSuggestions
    /\ rlSeen' = rlSeen + 1
    /\ \E issue_ref \in Refs(rlIssues), related_refs \in RefLists(rlIssues),
          relation_type \in RELATION_TYPES \cup {OtherRelationType}, ok \in BOOLEAN :
         LET issue_id == RefToId(rlIssues, issue_ref)
             related_ids == ConvertRefs(rlIssues, related_refs)
             valid_related == ValidRelated(rlIssues, issue_id, related_ids)
         IN  IF \/ issue_id = None
                \/ related_ids = <<>>
                \/ issue_id \notin IssueIdsOf(rlIssues)
                \/ relation_type \notin RELATION_TYPES
                \/ valid_related = <<>>
             THEN UNCHANGED <<rlLast, relations_created>>
             ELSE /\ rlLast' = [fn |-> "create_issue_relation", issue |-> issue_id,
                                others |-> valid_related, relation_type |-> relation_type]
                  /\ relations_created' =
                        IF ok THEN relations_created + Len(valid_related)
                        ELSE relations_created
    /\ UNCHANGED <<rlPc, rlIssues, sub_items_created>>

\* return {"sub_items": sub_items_created, "relations": relations_created}
RlReturn ==
    /\ rlPc = "relations"
    /\ rlPc' = "done"
    /\ UNCHANGED <<rlIssues, rlSeen, rlLast, sub_items_created, relations_created>>

RlOthers == <<rateVars, asgVars, modVars, resVars, cmVars, guVars, svVars, mbVars, imVars, dsVars, cyVars, mlVars, wrVars, pjVars, rtVars>>

RlNext ==
    \/ RlStart /\ UNCHANGED RlOthers
    \/ RlSubItem /\ UNCHANGED RlOthers
    \/ RlSubItemsDone /\ UNCHANGED RlOthers
    \/ RlRelation /\ UNCHANGED RlOthers
    \/ RlReturn /\ UNCHANGED RlOthers

RelationsInit == RateStart /\ AsgIdle /\ ModIdle /\ ResIdle /\ CmIdle /\ GuIdle /\ SvIdle /\ MbIdle /\ ImIdle /\ DsIdle /\ CyIdle /\ MlIdle /\ WrIdle /\ PjIdle /\ RtIdle /\ RlInit

SpecRelations == RelationsInit /\ [][RlNext]_vars

(* C30: every link request of process_project_relationships references     *)
(* only issues of the project and never links an issue to itself:           *)
(* create_issue_relation is never called with issue_id among the related    *)
(* ids or with a relation type outside RELATION_TYPES, and add_sub_issues   *)
(* is never called with the parent id among the sub-issue ids.              *)
C30_NoSelfOrForeignLinks ==
    rlLast.fn # "none" =>
        /\ rlLast.issue \in IssueIdsOf(rlIssues)
        /\ \A i \in 1..Len(rlLast.others) :
              /\ rlLast.others[i] \in IssueIdsOf(rlIssues)
              /\ rlLast.others[i] # rlLast.issue
        /\ rlLast.fn = "create_issue_relation" => rlLast.relation_type \in RELATION_TYPES

(* ------------------------------------------------------------------ *)
(* generate_user: uniqueness of the users of all_users                *)
(* ------------------------------------------------------------------ *)
\* one attempt up to the parsed answer (get_used_names_sample, the prompt,
\* rate_limit_claude, client.messages.create and the parsing), or the
\* for-else once the attempts are exhausted
UqAnswer(t) ==
    /\ gpc[t] = "sample"
    /\ IF attempt[t] < max_attempts
       THEN /\ llm_calls < MaxAnswers
            /\ llm_calls' = llm_calls + 1
            /\ \E out \in CandidateUsers \cup {BadOutput} :
                 /\ guser' = [guser EXCEPT ![t] = out]
                 /\ IF out = BadOutput
                    THEN /\ attempt' = [attempt EXCEPT ![t] = @ + 1]
                         /\ UNCHANGED gpc
                    ELSE /\ gpc' = [gpc EXCEPT ![t] = "is_unique"]
                         /\ UNCHANGED attempt
       ELSE /\ gpc' = [gpc EXCEPT ![t] = "user"]
            /\ UNCHANGED <<attempt, guser, llm_calls>>
    /\ UNCHANGED <<gleft, uniqueness_lock, used_emails, used_full_names, users,
                   claude_times, gu_all_users>>

\* is_unique_user: both sets are extended, the lock is released, True is returned
UqReserve(t) ==
    /\ gpc[t] = "reserve"
    /\ used_emails' = used_emails \cup {Lower(guser[t].email)}
    /\ used_full_names' = used_full_names \cup {Lower(guser[t].name)}
    /\ uniqueness_lock' = IF uniqueness_lock = t THEN NoThread ELSE uniqueness_lock
    /\ gpc' = [gpc EXCEPT ![t] = "csrf"]
    /\ UNCHANGED <<gleft, attempt, guser, users, claude_times, gu_all_users, llm_calls>>

\* get_csrf_token(): with a token the user is appended and the attempt loop
\* left, without one the next attempt starts
UqCsrf(t) ==
    /\ gpc[t] = "csrf"
    /\ \E token \in BOOLEAN :
         IF token
         THEN /\ users' = [users EXCEPT ![t] = Append(@, guser[t])]
              /\ gpc' = [gpc EXCEPT ![t] = "user"]
              /\ UNCHANGED attempt
         ELSE /\ attempt' = [attempt EXCEPT ![t] = @ + 1]
              /\ gpc' = [gpc EXCEPT ![t] = "sample"]
              /\ UNCHANGED users
    /\ UNCHANGED <<gleft, guser, uniqueness_lock, used_emails, used_full_names,
                   claude_times, gu_all_users, llm_calls>>

\* the workers of generate_user without their rate limiters, which touch
\* neither the sets of used names nor the lists of users
UqNext ==
    \/ \E t \in Threads : GuNextUser(t) /\ UNCHANGED <<rateVars, GuOthers>>
    \/ \E t \in Threads : UqAnswer(t) /\ UNCHANGED <<rateVars, GuOthers>>
    \/ \E t \in Threads : GuIsUnique(t) /\ UNCHANGED <<rateVars, GuOthers>>
    \/ \E t \in Threads : UqReserve(t) /\ UNCHANGED <<rateVars, GuOthers>>
    \/ \E t \in Threads : UqCsrf(t) /\ UNCHANGED <<rateVars, GuOthers>>
    \/ \E t \in Threads : GuSave(t) /\ UNCHANGED <<rateVars, GuOthers>>

UniqueInit == GenUserInit

SpecUnique == UniqueInit /\ [][UqNext]_vars

\* no two entries of a list of users share the lower-cased email or the
\* lower-cased "first last" name
NoDuplicates(list) ==
    \A i, j \in 1..Len(list) :
        i < j => /\ Lower(list[i].email) # Lower(list[j].email)
                 /\ Lower(list[i].name) # Lower(list[j].name)

(* C29: under any interleaving of the generate_user_batch workers and any   *)
(* sequence of LLM outputs, no two users of all_users share the same        *)
(* lower-cased email or the same lower-cased "first last" full name.        *)
C29_AllUsersUnique == NoDuplicates(gu_all_users)

\* the batch of one worker is in all_users, and another worker's latest
\* answer, the same user in another spelling, was turned down as a duplicate
C29_Witness ==
    \E t, u \in Threads :
        /\ t # u
        /\ gpc[u] = "saved"
        /\ Len(gu_all_users) >= 1
        /\ gpc[t] = "sample" /\ attempt[t] >= 1
        /\ guser[t] # BadOutput
        /\ \E i \in 1..Len(gu_all_users) :
              /\ gu_all_users[i] # guser[t]
              /\ Lower(gu_all_users[i].email) = Lower(guser[t].email)
====
